---- MODULE Spec2Model ----
(***************************************************************************)
(* A model of the PSyIR core of PSyclone: the call-inlining transformation *)
(* (psyir/transformations/inline_trans.py), the node-kind checks of the    *)
(* transformations' validate() methods, the dependency analysis of the     *)
(* dynamic OpenMP task directive (psyir/nodes/dynamic_omp_task_directive), *)
(* the GOcean transformation that moves the iteration boundaries inside a  *)
(* kernel, the datatypes of the symbols (psyir/symbols/datatypes.py), the  *)
(* queries of a source file (parse/module_info.py) and the accesses that   *)
(* a Reference records (psyir/nodes/reference.py).                         *)
(*                                                                         *)
(* PSyIR nodes are records [k, sym, op, val, kids]: k is the node class,   *)
(* sym the identity of the symbol a Reference (or Call, or Loop variable)  *)
(* holds, op the operator of an operation, val the value of a Literal (or  *)
(* the full-extent flag of a Range) and kids the ordered children.         *)
(* Symbols are identities (strings); their attributes, name included, are  *)
(* kept in a separate map, so that a rename leaves every Reference intact. *)
(***************************************************************************)
EXTENDS Integers, Sequences, FiniteSets, TLC

VARIABLES
    scn,            \* InlineTrans: the call site and routine handed to apply/validate
    symbols,        \* InlineTrans: attributes of every Symbol, by identity
    table,          \* InlineTrans: the call-site SymbolTable (identities, in insertion order)
    routine_table,  \* InlineTrans: the SymbolTable of the copy of the routine
    stmts,          \* InlineTrans: the children of the Schedule that holds the call
    outcome,        \* InlineTrans: what validate()/apply() did: not run, returned, or raised
    trans,          \* validate(): the transformation whose validate() is called
    target,         \* validate(): the node handed to it
    raised,         \* validate(): the exception it raised ("none" before, "" for a return)
    task,           \* task directive: the parallel region, parent loops and task loop
    clauses,        \* task directive: the result of _compute_clauses()
    gocean,         \* GOcean: the invoke and the kernel handed to the transformation
    datatype,       \* datatypes: the arguments of a constructor or comparison, and the result
    modinfo,        \* ModuleInfo: the source file, the caches and the calls made so far
    accesses        \* reference_accesses: the reference and the accesses recorded

inlineVars == <<scn, symbols, table, routine_table, stmts, outcome>>
kindVars == <<trans, target, raised>>
taskVars == <<task, clauses>>
libVars == <<gocean, datatype>>
queryVars == <<modinfo, accesses>>
vars == <<scn, symbols, table, routine_table, stmts, outcome,
          trans, target, raised, task, clauses, gocean, datatype,
          modinfo, accesses>>

(***************************************************************************)
(* Bounds of the model.                                                    *)
(***************************************************************************)
MaxBody == 2
MaxPre == 1
MaxLit == 3
MaxStep == 3

(***************************************************************************)
(* PSyIR nodes.                                                            *)
(***************************************************************************)
Node(k, sym, op, val, kids) ==
    [k |-> k, sym |-> sym, op |-> op, val |-> val, kids |-> kids]

Literal(v) == Node("Literal", "", "", v, <<>>)
Reference(s) == Node("Reference", s, "", 0, <<>>)
ArrayReference(s, indices) == Node("ArrayReference", s, "", 0, indices)
Range(full) == Node("Range", "", "", full, <<>>)
BinaryOperation(op, l, r) == Node("BinaryOperation", "", op, 0, <<l, r>>)
Assignment(lhs, rhs) == Node("Assignment", "", "", 0, <<lhs, rhs>>)
Call(routine, args) == Node("Call", routine, "", 0, args)
Return == Node("Return", "", "", 0, <<>>)
CodeBlock == Node("CodeBlock", "", "", 0, <<>>)
Schedule(children) == Node("Schedule", "", "", 0, children)
IfBlock(cond, body) == Node("IfBlock", "", "", 0, <<cond, Schedule(body)>>)
Loop(var, start, stop, step, body) ==
    Node("Loop", var, "", 0, <<start, stop, step, Schedule(body)>>)

\* The classes of Reference: ArrayReference and StructureReference derive
\* from it.
ReferenceKinds == {"Reference", "ArrayReference", "StructureReference",
                   "ArrayOfStructuresReference"}

\* isinstance(node, Reference)
IsReference(n) == n.k \in ReferenceKinds

\* A StructureReference symbol%member and the members it may end in: a plain
\* Member and an ArrayMember with indices (op holds the name of the member).
StructureReference(s, member) == Node("StructureReference", s, "", 0, <<member>>)
Member(name) == Node("Member", "", name, 0, <<>>)
ArrayMember(name, indices) == Node("ArrayMember", "", name, 0, indices)

\* None, where a node is expected.
NoNode == Node("None", "", "", 0, <<>>)

Range1(n) == 1..n

\* Concatenation of a sequence of sequences.
RECURSIVE Flatten(_)
Flatten(ss) == IF ss = <<>> THEN <<>> ELSE Head(ss) \o Flatten(Tail(ss))

\* Node.walk(kinds): the node and its descendants of the given classes,
\* depth first, in pre-order.
RECURSIVE walk(_, _)
walk(n, kinds) ==
    (IF n.k \in kinds THEN <<n>> ELSE <<>>)
    \o Flatten([i \in Range1(Len(n.kids)) |-> walk(n.kids[i], kinds)])

walk_all(ns, kinds) == Flatten([i \in Range1(Len(ns)) |-> walk(ns[i], kinds)])

SeqToSet(s) == {s[i] : i \in Range1(Len(s))}

\* list.index(x): the first position of x.
IndexOf(s, x) == CHOOSE i \in Range1(Len(s)) :
                    s[i] = x /\ \A j \in Range1(i - 1) : s[j] # x

(***************************************************************************)
(* Symbols and symbol tables.  A symbol table is the sequence of the       *)
(* identities it holds (a dict in insertion order); names are attributes.  *)
(***************************************************************************)
Sym(name, cls, iface, cont, rank) ==
    [name |-> name, cls |-> cls, iface |-> iface, cont |-> cont,
     rank |-> rank, wildcard |-> FALSE]

\* Symbol.is_import, Symbol.is_unresolved, Symbol.is_local
is_import(syms, id) == syms[id].iface = "import"
is_unresolved(syms, id) == syms[id].iface = "unresolved"
is_local(syms, id) == syms[id].iface = "local"

names_of(syms, tbl) == {syms[tbl[i]].name : i \in Range1(Len(tbl))}

\* name in table: this scope only.
in_table(syms, tbl, name) == name \in names_of(syms, tbl)

\* SymbolTable.lookup(name): this table first, then its ancestors. "" stands
\* for the KeyError of a name that is nowhere.
lookup(syms, tbl, ancestors, name) ==
    IF in_table(syms, tbl, name)
    THEN tbl[CHOOSE i \in Range1(Len(tbl)) : syms[tbl[i]].name = name]
    ELSE IF in_table(syms, ancestors, name)
    THEN ancestors[CHOOSE i \in Range1(Len(ancestors)) :
                       syms[ancestors[i]].name = name]
    ELSE ""

\* SymbolTable.imported_symbols
imported_symbols(syms, tbl) == SelectSeq(tbl, LAMBDA id : is_import(syms, id))

\* SymbolTable.containersymbols
containersymbols(syms, tbl) ==
    SelectSeq(tbl, LAMBDA id : syms[id].cls = "ContainerSymbol")

\* SymbolTable.symbols_imported_from(csym)
symbols_imported_from(syms, tbl, csym) ==
    SelectSeq(tbl, LAMBDA id : is_import(syms, id) /\ syms[id].cont = csym)

\* base_1, base_2, ...
Suffixed(base, n) == base \o "_" \o ToString(n)

\* SymbolTable.next_available_name(root_name, other_table): root_name if no
\* symbol visible from this table, nor any of other_table, has it, else the
\* first of root_name_1, root_name_2, ... that is free.
next_available_name(syms, tbl, ancestors, root_name, other_table) ==
    LET existing == names_of(syms, tbl) \cup names_of(syms, ancestors)
                    \cup names_of(syms, other_table)
        n == CHOOSE k \in 1..(Cardinality(existing) + 1) :
                /\ Suffixed(root_name, k) \notin existing
                /\ \A j \in 1..(k - 1) : Suffixed(root_name, j) \in existing
    IN IF root_name \notin existing THEN root_name ELSE Suffixed(root_name, n)

\* SymbolTable.rename_symbol(symbol, name): the symbol keeps its identity.
rename_symbol(syms, id, name) == [syms EXCEPT ![id].name = name]

(***************************************************************************)
(* InlineTrans: the programs handed to the transformation.                 *)
(*                                                                         *)
(* c_* are the symbols of the call site, g_* those of the Container that   *)
(* holds caller and routine, r_* those of the routine being inlined.       *)
(***************************************************************************)
SymbolIds ==
    {"c_a", "c_s", "c_i", "c_x", "c_x1", "c_xi", "c_vl", "c_v1", "c_v2",
     "c_m1", "c_m2", "c_n1", "c_n2", "c_if",
     "g_sub", "g_w", "g_u", "g_z",
     "r_p", "r_q", "r_x", "r_t", "r_v", "r_v2", "r_m1", "r_m2", "r_self", "r_f"}

\* The attributes the symbols have before the transformation runs.
BaseSymbols ==
    [id \in SymbolIds |->
       CASE id = "c_a"  -> Sym("a", "DataSymbol", "local", "", 1)
         [] id = "c_s"  -> Sym("s", "DataSymbol", "local", "", 0)
         [] id = "c_i"  -> Sym("i", "DataSymbol", "local", "", 0)
         [] id = "c_x"  -> Sym("x", "DataSymbol", "local", "", 0)
         [] id = "c_x1" -> Sym("x_1", "DataSymbol", "local", "", 0)
         [] id = "c_xi" -> Sym("x", "DataSymbol", "import", "c_m2", 0)
         [] id = "c_vl" -> Sym("v", "DataSymbol", "local", "", 0)
         [] id = "c_v1" -> Sym("v", "DataSymbol", "import", "c_m1", 0)
         [] id = "c_v2" -> Sym("v", "DataSymbol", "import", "c_m2", 0)
         [] id = "c_m1" -> Sym("m1", "ContainerSymbol", "local", "", 0)
         [] id = "c_m2" -> Sym("m2", "ContainerSymbol", "local", "", 0)
         [] id = "c_n1" -> Sym("m1", "DataSymbol", "local", "", 0)
         [] id = "c_n2" -> Sym("m1", "DataSymbol", "import", "c_m2", 0)
         [] id = "c_if" -> Sym("inlined_sub", "DataSymbol", "local", "", 0)
         [] id = "g_sub" -> Sym("sub", "RoutineSymbol", "local", "", 0)
         [] id = "g_w"  -> Sym("w", "DataSymbol", "local", "", 0)
         [] id = "g_u"  -> Sym("u", "DataSymbol", "unresolved", "", 0)
         [] id = "g_z"  -> Sym("z", "DataSymbol", "import", "c_m1", 0)
         [] id = "r_p"  -> Sym("p", "DataSymbol", "argument", "", 0)
         [] id = "r_q"  -> Sym("q", "DataSymbol", "argument", "", 0)
         [] id = "r_x"  -> Sym("x", "DataSymbol", "local", "", 0)
         [] id = "r_t"  -> Sym("t", "DataSymbol", "local", "", 0)
         [] id = "r_v"  -> Sym("v", "DataSymbol", "import", "r_m1", 0)
         [] id = "r_v2" -> Sym("v", "DataSymbol", "import", "r_m2", 0)
         [] id = "r_m1" -> Sym("m1", "ContainerSymbol", "local", "", 0)
         [] id = "r_m2" -> Sym("m2", "ContainerSymbol", "local", "", 0)
         [] id = "r_self" -> Sym("sub", "RoutineSymbol", "local", "", 0)
         [] id = "r_f"  -> Sym("sub", "DataSymbol", "local", "", 0)]

\* The symbols every call site has, and what else it may declare or import.
CallerBase == <<"c_a", "c_s", "c_i">>
CallerExtras ==
    { <<>>, <<"c_x">>, <<"c_x", "c_x1">>, <<"c_m2", "c_xi">>, <<"c_vl">>,
      <<"c_m1", "c_v1">>, <<"c_m2", "c_v2">>, <<"c_n1">>, <<"c_m2", "c_n2">>,
      <<"c_m1">>, <<"c_if">> }

\* The symbols every routine has (its two dummy arguments first) and what
\* else it may import.
RoutineBase == <<"r_p", "r_q", "r_x", "r_t">>
RoutineExtras ==
    { <<>>, <<"r_m1", "r_v">>, <<"r_m2", "r_v2">>, <<"r_m1">> }

\* The table of the Container that holds both routines.
ContainerTable == <<"g_sub", "g_w", "g_u", "g_z">>

\* The statements a routine body is made of.
BodyStmt(b) ==
    CASE b = "p=1"    -> Assignment(Reference("r_p"), Literal(1))
      [] b = "x=p"    -> Assignment(Reference("r_x"), Reference("r_p"))
      [] b = "p(t)=q" -> Assignment(ArrayReference("r_p", <<Reference("r_t")>>),
                                    Reference("r_q"))
      [] b = "x=p(t)" -> Assignment(Reference("r_x"),
                                    ArrayReference("r_p", <<Reference("r_t")>>))
      [] b = "p(q)=1" -> Assignment(ArrayReference("r_p", <<Reference("r_q")>>),
                                    Literal(1))
      [] b = "x=v"    -> Assignment(Reference("r_x"), Reference("r_v"))
      [] b = "x=v2"   -> Assignment(Reference("r_x"), Reference("r_v2"))
      [] b = "f=p"    -> Assignment(Reference("r_f"), Reference("r_p"))
      [] b = "x=w"    -> Assignment(Reference("r_x"), Reference("g_w"))
      [] b = "x=u"    -> Assignment(Reference("r_x"), Reference("g_u"))
      [] b = "x=z"    -> Assignment(Reference("r_x"), Reference("g_z"))
      [] b = "return" -> Return
      [] b = "code"   -> CodeBlock
      [] b = "ifret"  -> IfBlock(Reference("r_x"), <<Return>>)

\* The actual arguments a call may pass for the first dummy argument.
ActualArg(a) ==
    CASE a = "a"      -> Reference("c_a")
      [] a = "s"      -> Reference("c_s")
      [] a = "a(i)"   -> ArrayReference("c_a", <<Reference("c_i")>>)
      [] a = "a(:)"   -> ArrayReference("c_a", <<Range(1)>>)
      [] a = "a(2:3)" -> ArrayReference("c_a", <<Range(0)>>)
      [] a = "1"      -> Literal(1)
      [] a = "a+1"    -> BinaryOperation("ADD", Reference("c_a"), Literal(1))
      [] a = "i"      -> Reference("c_i")
      [] a = "2"      -> Literal(2)

BodiesOver(S) == UNION {[Range1(n) -> S] : n \in 0..MaxBody}

\* A scenario: which symbols the two tables hold, the routine's body, whether
\* it is a function, how the Call sits in the caller (form), its actual
\* arguments, the declared rank of the first dummy argument, the number of
\* statements before and after the call, how the call's RoutineSymbol
\* resolves (rsym) and the name a named argument is given.
Scenario(cx, rx, fn, form, body, ap, aq, rank, pre, post, rsym, argname) ==
    [caller |-> cx, routine |-> rx, fn |-> fn, form |-> form, body |-> body,
     ap |-> ap, aq |-> aq, rank |-> rank, pre |-> pre, post |-> post,
     rsym |-> rsym, argname |-> argname]

FunctionForms == {"rhs", "binop", "ifcond", "callarg"}
Forms(fn) == IF fn THEN FunctionForms ELSE {"stmt"}

\* Tables vary, over a few short bodies.
ScenariosTables ==
    { Scenario(cx, rx, fn, form, body, "s", "i", 0, 0, 0, "local", "") :
        cx \in CallerExtras, rx \in RoutineExtras, fn \in BOOLEAN,
        form \in {"stmt", "rhs"},
        body \in { <<>>, <<"return", "x=p">>, <<"x=p">>, <<"x=v", "p=1">>,
                   <<"x=v2">>, <<"x=p", "return">> } }

\* Bodies vary, as do the place and the form of the call.
ScenariosBodies ==
    { Scenario(<<"c_x">>, <<>>, fn, form, body, "s", "i", 0, pre, post, "local", "") :
        fn \in BOOLEAN, form \in FunctionForms \cup {"stmt"},
        body \in BodiesOver({"p=1", "x=p", "f=p", "x=w", "x=u", "x=z",
                             "return", "code", "ifret"}),
        pre \in 0..MaxPre, post \in 0..1 }

\* Actual arguments and the declared rank of the dummy argument vary.
ScenariosArgs ==
    { Scenario(cx, <<>>, fn, form, body, ap, aq, rank, 1, 1, "local", "") :
        cx \in { <<>>, <<"c_x">> }, fn \in BOOLEAN, form \in {"stmt", "rhs"},
        body \in { <<"p=1">>, <<"x=p">>, <<"p(t)=q">>, <<"x=p", "p(t)=q">>,
                   <<"x=p(t)">>, <<"p(q)=1">> },
        ap \in {"a", "s", "a(i)", "a(:)", "a(2:3)", "1", "a+1"},
        aq \in {"i", "2"}, rank \in 0..1 }

\* The call's RoutineSymbol is imported, or its Routine is not in the file,
\* or an argument is passed by name.
ScenariosRoutine ==
    { Scenario(<<>>, <<>>, FALSE, "stmt", body, "s", "i", 0, 0, 0, rsym, argname) :
        body \in { <<>>, <<"x=p">> }, rsym \in {"local", "import", "missing"},
        argname \in {"", "p"} }

\* Only programs that are well formed: every symbol a body uses is declared
\* where the routine can see it, an indexed dummy argument is an array, the
\* result of a function is only assigned in a function and a call has the
\* form its routine asks for.
WellFormed(s) ==
    /\ s.form \in Forms(s.fn)
    /\ \A i \in Range1(Len(s.body)) :
          /\ s.body[i] = "x=v" => "r_v" \in SeqToSet(s.routine)
          /\ s.body[i] = "x=v2" => "r_v2" \in SeqToSet(s.routine)
          /\ s.body[i] = "f=p" => s.fn
          /\ s.body[i] \in {"p(t)=q", "x=p(t)", "p(q)=1"} => s.rank = 1

Scenarios ==
    { s \in ScenariosTables \cup ScenariosBodies \cup ScenariosArgs
              \cup ScenariosRoutine : WellFormed(s) }

InitSymbols(s) ==
    [BaseSymbols EXCEPT !["r_p"].rank = s.rank,
                        !["r_m1"].wildcard = (s.routine = <<"r_m1">>),
                        !["g_sub"].iface =
                            IF s.rsym = "import" THEN "import" ELSE "local"]
CallerTable(s) == CallerBase \o s.caller
RoutineTable(s) ==
    RoutineBase \o s.routine \o (IF s.fn THEN <<"r_f">> ELSE <<"r_self">>)

\* The symbol table of orig_routine.copy(): copy() makes new nodes, the
\* symbols are not cloned, so the table of the copy holds the symbols of
\* the table of the routine.
copied_table(symbol_table) == symbol_table

\* Routine.children, SymbolTable.argument_list, Routine.return_symbol ("" for
\* None) and Routine.name of the routine that is called.
RoutineChildren(s) == [i \in Range1(Len(s.body)) |-> BodyStmt(s.body[i])]
argument_list == <<"r_p", "r_q">>
return_symbol(s) == IF s.fn THEN "r_f" ELSE ""
routine_name == "sub"

\* The Call node and Call.argument_names.
TheCall(s) == Call("g_sub", <<ActualArg(s.ap), ActualArg(s.aq)>>)
argument_names(s) == <<s.argname, "">>

\* The statement of the caller that holds the Call.
CallStatement(s) ==
    CASE s.form = "stmt"    -> TheCall(s)
      [] s.form = "rhs"     -> Assignment(Reference("c_s"), TheCall(s))
      [] s.form = "binop"   ->
            Assignment(Reference("c_s"),
                       BinaryOperation("ADD", TheCall(s), Literal(1)))
      [] s.form = "ifcond"  ->
            IfBlock(BinaryOperation("GT", TheCall(s), Literal(0)),
                    <<Assignment(Reference("c_s"), Literal(0))>>)
      [] s.form = "callarg" -> Call("g_other", <<TheCall(s)>>)

CallerStmts(s) ==
    [j \in Range1(s.pre) |-> Assignment(Reference("c_s"), Literal(10 + j))]
    \o <<CallStatement(s)>>
    \o [j \in Range1(s.post) |-> Assignment(Reference("c_i"), Literal(20 + j))]

(***************************************************************************)
(* InlineTrans.validate                                                    *)
(***************************************************************************)
\* What a method did: exc is "" when it returned and the class of the
\* exception when it raised; why and info are what its message says.
Returned == [exc |-> "", why |-> "", info |-> <<>>]
Raise(exc, why, info) == [exc |-> exc, why |-> why, info |-> info]

\* InlineTrans._find_routine: the error it raises, if any.
_find_routine(s, syms) ==
    IF ~is_local(syms, "g_sub")
    THEN Raise("TransformationError", "imported", <<>>)
    ELSE IF s.rsym = "missing"
    THEN Raise("TransformationError", "no source", <<>>)
    ELSE Returned

\* The rank of node.datatype: the rank of the symbol of a Reference, and one
\* dimension for every Range of an ArrayReference.
datatype_rank(syms, n) ==
    IF n.k = "ArrayReference"
    THEN Cardinality({i \in Range1(Len(n.kids)) : n.kids[i].k = "Range"})
    ELSE syms[n.sym].rank

\* ArrayMixin.is_full_range(index)
is_full_range(n, i) == n.kids[i].val = 1

\* The check of the Ranges of one actual argument (validate, lines 613-626).
RECURSIVE check_ranges(_, _)
check_ranges(actual, i) ==
    IF i > Len(actual.kids) THEN Returned
    ELSE IF actual.kids[i].k = "Range" /\ ~is_full_range(actual, i)
    THEN Raise("TransformationError", "subsection", <<>>)
    ELSE IF actual.kids[i].k # "Range" /\ walk(actual.kids[i], {"Range"}) # <<>>
    THEN Raise("TransformationError", "TODO", <<>>)
    ELSE check_ranges(actual, i + 1)

\* The loop over zip(argument_list, node.children) (validate, lines 588-626).
RECURSIVE check_shapes(_, _, _)
check_shapes(node, syms, i) ==
    IF i > Len(argument_list) \/ i > Len(node.kids) THEN Returned
    ELSE LET actual_arg == node.kids[i]
             dummy_rank == syms[argument_list[i]].rank
             actual_rank == datatype_rank(syms, actual_arg)
         IN IF ~IsReference(actual_arg) THEN check_shapes(node, syms, i + 1)
            ELSE IF dummy_rank # actual_rank
            THEN Raise("TransformationError", "reshape",
                       <<actual_rank, dummy_rank>>)
            ELSE IF actual_rank > 0
                    /\ check_ranges(actual_arg, 1).exc # ""
            THEN check_ranges(actual_arg, 1)
            ELSE check_shapes(node, syms, i + 1)

\* A clash of imports that compares the ContainerSymbols themselves, not
\* their names.
import_clash_by_identity(syms, tbl, rtbl) ==
    \E i \in Range1(Len(imported_symbols(syms, tbl))) :
       LET sym == imported_symbols(syms, tbl)[i]
           routine_sym == lookup(syms, rtbl, ContainerTable, syms[sym].name)
       IN /\ syms[sym].name \in names_of(syms, imported_symbols(syms, rtbl))
          /\ syms[routine_sym].cont # syms[sym].cont

\* The clash of imports (validate, lines 550-566): an imported symbol of the
\* call site whose name is also that of an import of the routine, from a
\* container of another name.
import_clash(syms, tbl, rtbl) ==
    \E i \in Range1(Len(imported_symbols(syms, tbl))) :
       LET sym == imported_symbols(syms, tbl)[i]
           routine_import_names == names_of(syms, imported_symbols(syms, rtbl))
           routine_sym == lookup(syms, rtbl, ContainerTable, syms[sym].name)
       IN /\ syms[sym].name \in routine_import_names
          /\ syms[syms[routine_sym].cont].name # syms[syms[sym].cont].name

\* The check of the symbols the routine accesses (validate, lines 568-583):
\* "" when all are its own or imported.
bad_access(syms, rtbl, children) ==
    LET refs == walk_all(children, ReferenceKinds)
        bad(i) == LET sym == lookup(syms, rtbl, ContainerTable,
                                    syms[refs[i].sym].name)
                  IN /\ ~in_table(syms, rtbl, syms[refs[i].sym].name)
                     /\ (is_unresolved(syms, sym) \/ ~is_import(syms, sym))
    IN IF \E i \in Range1(Len(refs)) : bad(i)
       THEN LET i == CHOOSE j \in Range1(Len(refs)) :
                        bad(j) /\ \A h \in Range1(j - 1) : ~bad(h)
                sym == lookup(syms, rtbl, ContainerTable, syms[refs[i].sym].name)
            IN IF is_unresolved(syms, sym) THEN "un-resolved"
               ELSE "parent container"
       ELSE ""

\* "An empty routine is fine" (validate, lines 519-521).
empty_routine(children) == children = <<>> \/ children[1].k = "Return"

\* A check of the Return statements that only counts them.
bad_returns_counted(children) ==
    Len(walk_all(children, {"Return"})) > 1

\* The check of the Return statements (validate, lines 523-531).
bad_returns(children) ==
    LET return_stmts == walk_all(children, {"Return"})
    IN /\ return_stmts # <<>>
       /\ (Len(return_stmts) > 1 \/ children[Len(children)].k # "Return")

\* InlineTrans.validate(node), the routine found being the one of scenario s.
validate(node, s, syms, tbl, rtbl) ==
    LET children == RoutineChildren(s)
    IN IF node.k # "Call"
       THEN Raise("TransformationError", "not a Call", <<>>)
       ELSE IF _find_routine(s, syms).exc # "" THEN _find_routine(s, syms)
       ELSE IF empty_routine(children) THEN Returned
       ELSE IF bad_returns(children)
       THEN Raise("TransformationError", "Return", <<>>)
       ELSE IF walk_all(children, {"CodeBlock"}) # <<>>
       THEN Raise("TransformationError", "CodeBlock", <<>>)
       ELSE IF \E i \in Range1(Len(argument_names(s))) : argument_names(s)[i] # ""
       THEN Raise("TransformationError", "named argument", <<>>)
       ELSE IF import_clash(syms, tbl, rtbl)
       THEN Raise("TransformationError", "import clash", <<>>)
       ELSE IF bad_access(syms, rtbl, children) # ""
       THEN Raise("TransformationError", bad_access(syms, rtbl, children), <<>>)
       ELSE check_shapes(node, syms, 1)

(***************************************************************************)
(* InlineTrans.apply and its helpers.  The helpers work on a record w of   *)
(* the symbols' attributes (syms), the call-site table (tbl), the table of *)
(* the copy of the routine (rtbl) and the exception raised so far (exc).   *)
(***************************************************************************)
\* One iteration of the loop over the imports of a container
\* (_inline_container_symbols, lines 388-403).
inline_imported_symbol(w, csym, isym) ==
    LET name == w.syms[isym].name
        callsite_sym == lookup(w.syms, w.tbl, ContainerTable, name)
        renamed ==
            IF in_table(w.syms, w.tbl, name) /\ ~is_import(w.syms, callsite_sym)
            THEN rename_symbol(w.syms, callsite_sym,
                     next_available_name(w.syms, w.tbl, ContainerTable,
                                         w.syms[callsite_sym].name, w.rtbl))
            ELSE w.syms
    IN [w EXCEPT !.syms =
          [renamed EXCEPT ![isym].cont =
              lookup(renamed, w.tbl, ContainerTable, renamed[csym].name)]]

RECURSIVE inline_imported_symbols(_, _, _)
inline_imported_symbols(w, csym, isyms) ==
    IF isyms = <<>> THEN w
    ELSE inline_imported_symbols(inline_imported_symbol(w, csym, Head(isyms)),
                                 csym, Tail(isyms))

\* The symbol a clash with a container of the routine renames at the call
\* site (_inline_container_symbols, lines 369-375): whatever is not itself a
\* ContainerSymbol.
may_rename_for_container(syms, other_csym) ==
    syms[other_csym].cls # "ContainerSymbol"

\* One iteration of the loop over the routine's containers
\* (_inline_container_symbols, lines 365-403).
inline_container_symbol(w, csym) ==
    LET name == w.syms[csym].name
        other_csym == lookup(w.syms, w.tbl, ContainerTable, name)
        w1 == IF in_table(w.syms, w.tbl, name)
              THEN IF may_rename_for_container(w.syms, other_csym)
                   THEN [w EXCEPT
                           !.syms = rename_symbol(w.syms, other_csym,
                               next_available_name(w.syms, w.tbl, ContainerTable,
                                                   name, w.rtbl)),
                           !.tbl = Append(w.tbl, csym)]
                   ELSE IF w.syms[csym].wildcard
                   THEN [w EXCEPT !.syms[other_csym].wildcard = TRUE]
                   ELSE w
              ELSE [w EXCEPT !.tbl = Append(w.tbl, csym)]
    IN inline_imported_symbols(w1, csym,
                               symbols_imported_from(w1.syms, w1.rtbl, csym))

RECURSIVE inline_container_symbols_loop(_, _)
inline_container_symbols_loop(w, csyms) ==
    IF csyms = <<>> THEN w
    ELSE inline_container_symbols_loop(inline_container_symbol(w, Head(csyms)),
                                       Tail(csyms))

\* InlineTrans._inline_container_symbols(table, routine_table)
_inline_container_symbols(w) ==
    inline_container_symbols_loop(w, containersymbols(w.syms, w.rtbl))

\* One iteration of the loop of _inline_symbols (lines 429-467).  Literals
\* whose precision is a symbol are not part of the programs modelled, so the
\* precision_map is empty.
inline_symbol(w, old_sym) ==
    LET name == w.syms[old_sym].name
    IN IF w.exc # "" THEN w
       ELSE IF old_sym \in SeqToSet(argument_list)
               \/ w.syms[old_sym].cls = "ContainerSymbol"
       THEN w
       ELSE IF name = routine_name /\ w.syms[old_sym].cls = "RoutineSymbol"
       THEN w
       ELSE IF ~in_table(w.syms, w.tbl, name)
       THEN [w EXCEPT !.tbl = Append(w.tbl, old_sym)]
       ELSE IF is_import(w.syms, old_sym)
       THEN LET callsite_csym ==
                   lookup(w.syms, w.tbl, ContainerTable,
                          w.syms[w.syms[old_sym].cont].name)
            IN IF w.syms[old_sym].cont # callsite_csym
               THEN [w EXCEPT !.exc = "InternalError"]
               ELSE w
       ELSE LET new_name == next_available_name(w.syms, w.tbl, ContainerTable,
                                                name, w.rtbl)
            IN [w EXCEPT !.syms = rename_symbol(w.syms, old_sym, new_name),
                         !.tbl = Append(w.tbl, old_sym)]

RECURSIVE inline_symbols_loop(_, _)
inline_symbols_loop(w, syms) ==
    IF syms = <<>> THEN w
    ELSE inline_symbols_loop(inline_symbol(w, Head(syms)), Tail(syms))

\* InlineTrans._inline_symbols(table, routine_table, precision_map)
_inline_symbols(w) == inline_symbols_loop(w, w.rtbl)

\* A place in a tree where building the replacement raised exc.
Raised(exc) == Node("!raise", "", exc, 0, <<>>)
first_raised(ns) ==
    IF walk_all(ns, {"!raise"}) = <<>> THEN ""
    ELSE walk_all(ns, {"!raise"})[1].op

\* ArrayReference.create(symbol, indices): the symbol must be an array of as
\* many dimensions as there are indices.
ArrayReference_create(syms, sym, indices) ==
    IF syms[sym].rank = 0 \/ syms[sym].rank # Len(indices)
    THEN Raised("GenerationError")
    ELSE ArrayReference(sym, indices)

\* What replace_dummy_arg(ref) returns to its caller (lines 228-255): the
\* reference it was given, whether or not it put something in its place.
returned_reference(ref) == ref

RECURSIVE replace_dummy_arg(_, _, _, _, _)
RECURSIVE replace_detached(_, _, _, _)
RECURSIVE range_indices(_, _, _, _, _, _)

\* The loop over top_indices when the call holds a Range (lines 321-331):
\* every Range takes the next local index, handed to replace_dummy_arg as a
\* copy that has no parent.
range_indices(syms, top_indices, local_indices, posn, call_node, orphan) ==
    IF top_indices = <<>> THEN <<>>
    ELSE IF Head(top_indices).k = "Range"
    THEN IF posn > Len(local_indices) THEN <<Raised("IndexError")>>
         ELSE <<replace_detached(syms, local_indices[posn], call_node, orphan)>>
              \o range_indices(syms, Tail(top_indices), local_indices,
                               posn + 1, call_node, orphan)
    ELSE <<Head(top_indices)>>
         \o range_indices(syms, Tail(top_indices), local_indices, posn,
                          call_node, orphan)

\* The new reference of lines 278-348, for an array access to a dummy
\* argument whose actual argument is not a plain Reference.
new_reference(syms, ref, call_node, orphan) ==
    LET actual_arg == call_node.kids[IndexOf(argument_list, ref.sym)]
        has_top == actual_arg.k = "ArrayReference"
        top_indices == actual_arg.kids
        local_indices == ref.kids
    IN IF walk(call_node, {"Range"}) # <<>>
       THEN IF ~has_top THEN Raised("TypeError")
            ELSE LET new_indices == range_indices(syms, top_indices,
                                        local_indices, 1, call_node, orphan)
                 IN IF first_raised(new_indices) # ""
                    THEN Raised(first_raised(new_indices))
                    ELSE ArrayReference_create(syms, actual_arg.sym, new_indices)
       ELSE IF has_top /\ top_indices # <<>> /\ local_indices # <<>>
       THEN Raised("InternalError")
       ELSE IF ~has_top THEN Raised("TypeError")
       ELSE ArrayReference_create(syms, actual_arg.sym, top_indices)

\* replace_dummy_arg(ref, call_node, dummy_args) for a ref that has no parent:
\* what it returns.  Node.replace_with() on such a node either raises or
\* leaves the node alone (orphan).
replace_detached(syms, ref, call_node, orphan) ==
    IF ~IsReference(ref) THEN Raised("AttributeError")
    ELSE IF ref.sym \notin SeqToSet(argument_list) THEN ref
    ELSE IF ref.k = "Reference"
    THEN IF orphan = "raise" THEN Raised("GenerationError")
         ELSE returned_reference(ref)
    ELSE IF call_node.kids[IndexOf(argument_list, ref.sym)].k = "Reference"
    THEN [ref EXCEPT !.sym = call_node.kids[IndexOf(argument_list, ref.sym)].sym]
    ELSE IF orphan = "raise" THEN Raised("GenerationError")
    ELSE new_reference(syms, ref, call_node, orphan)

\* The loop of apply over refs (lines 172-177), as the tree it leaves: the
\* node that stands where n stood once every Reference below it has been
\* through replace_dummy_arg.
replace_dummy_arg(syms, n, call_node, dummy_args, orphan) ==
    LET below == [n EXCEPT !.kids =
                    [i \in Range1(Len(n.kids)) |->
                       replace_dummy_arg(syms, n.kids[i], call_node,
                                         dummy_args, orphan)]]
        actual_arg == call_node.kids[IndexOf(dummy_args, n.sym)]
    IN IF ~(IsReference(n) /\ n.sym \in SeqToSet(dummy_args)) THEN below
       ELSE IF n.k = "Reference" THEN actual_arg
       ELSE IF actual_arg.k = "Reference"
       THEN [below EXCEPT !.sym = actual_arg.sym]
       ELSE new_reference(syms, n, call_node, orphan)

\* Whether node is n or one of its descendants.
RECURSIVE contains(_, _)
contains(n, node) ==
    n = node \/ \E i \in Range1(Len(n.kids)) : contains(n.kids[i], node)

\* Node.replace_with(new), seen from an ancestor n of the node.
RECURSIVE replace_with(_, _, _)
replace_with(n, node, new) ==
    IF n = node THEN new
    ELSE [n EXCEPT !.kids = [i \in Range1(Len(n.kids)) |->
                                replace_with(n.kids[i], node, new)]]

\* Node.detach(), seen from an ancestor n of the node: the parent of the node
\* loses that child.
RECURSIVE detach(_, _)
detach(n, node) ==
    LET kept == SelectSeq(n.kids, LAMBDA c : c # node)
    IN [n EXCEPT !.kids = [i \in Range1(Len(kept)) |-> detach(kept[i], node)]]

\* node.ancestor(Assignment), as the position of that Assignment among the
\* children of the Schedule; 0 stands for None.
ancestor_Assignment(children, node) ==
    IF \E i \in Range1(Len(children)) :
          children[i].k = "Assignment" /\ contains(children[i], node)
    THEN CHOOSE i \in Range1(Len(children)) :
          children[i].k = "Assignment" /\ contains(children[i], node)
    ELSE 0

\* node.position, for a node that is a child of the Schedule.
position(children, node) == IndexOf(children, node)

\* del new_stmts[-1] when the last statement is a Return (lines 180-183).
without_final_Return(new_stmts) ==
    IF new_stmts[Len(new_stmts)].k = "Return"
    THEN SubSeq(new_stmts, 1, Len(new_stmts) - 1)
    ELSE new_stmts

\* The result of apply: the exception it raised, if any, and the state it
\* left behind.
Result(out, syms, tbl, rtbl, children) ==
    [out |-> out, syms |-> syms, tbl |-> tbl, rtbl |-> rtbl,
     children |-> children]

\* Lines 185-198 of apply: the routine is a function.
splice_function(s, node, w, children, new_stmts) ==
    LET idx == ancestor_Assignment(children, node)
        renamed == rename_symbol(w.syms, return_symbol(s),
                       next_available_name(w.syms, w.tbl, ContainerTable,
                           "inlined_" \o w.syms[return_symbol(s)].name, <<>>))
    IN IF idx = 0
       THEN Result(Raise("AttributeError", "no Assignment", <<>>),
                   w.syms, w.tbl, w.rtbl, children)
       ELSE Result(Returned, renamed, w.tbl, w.rtbl,
                   SubSeq(children, 1, idx - 1) \o new_stmts
                   \o <<replace_with(children[idx], node,
                                     Reference(return_symbol(s)))>>
                   \o SubSeq(children, idx + 1, Len(children)))

\* Lines 199-206 of apply: the routine is a subroutine.
splice_subroutine(node, w, children, new_stmts) ==
    LET idx == position(children, node)
    IN Result(Returned, w.syms, w.tbl, w.rtbl,
              SubSeq(children, 1, idx - 1) \o new_stmts
              \o SubSeq(children, idx + 1, Len(children)))

\* InlineTrans.apply(node): node is the Call, children the statements of the
\* Schedule that holds it.
apply(node, s, syms, tbl, rtbl, children, orphan) ==
    LET checked == validate(node, s, syms, tbl, rtbl)
        routine_children == RoutineChildren(s)
        w == _inline_symbols(_inline_container_symbols(
                 [syms |-> syms, tbl |-> tbl, rtbl |-> rtbl, exc |-> ""]))
        replaced == [i \in Range1(Len(routine_children)) |->
                        replace_dummy_arg(w.syms, routine_children[i], node,
                                          argument_list, orphan)]
        new_stmts == without_final_Return(replaced)
    IN IF checked.exc # "" THEN Result(checked, syms, tbl, rtbl, children)
       ELSE IF empty_routine(routine_children)
       THEN Result(Returned, syms, tbl, rtbl,
                   LET kept == SelectSeq(children, LAMBDA c : c # node)
                   IN [i \in Range1(Len(kept)) |-> detach(kept[i], node)])
       ELSE IF w.exc # ""
       THEN Result(Raise(w.exc, "not updated", <<>>),
                   w.syms, w.tbl, w.rtbl, children)
       ELSE IF first_raised(replaced) # ""
       THEN Result(Raise(first_raised(replaced), "replace_dummy_arg", <<>>),
                   w.syms, w.tbl, w.rtbl, children)
       ELSE IF return_symbol(s) # ""
       THEN splice_function(s, node, w, children, new_stmts)
       ELSE splice_subroutine(node, w, children, new_stmts)

(***************************************************************************)
(* The inlining of one call: validate() or apply() is called once on the   *)
(* Call of the scenario.                                                   *)
(***************************************************************************)
NotRun == [op |-> "", exc |-> "", why |-> "", info |-> <<>>]
Ran(op, r) == [op |-> op, exc |-> r.exc, why |-> r.why, info |-> r.info]

\* How Node.replace_with() treats a node that has no parent.
OrphanOutcomes == {"raise", "keep"}

InitInline ==
    /\ scn \in Scenarios
    /\ symbols = InitSymbols(scn)
    /\ table = CallerTable(scn)
    /\ routine_table = copied_table(RoutineTable(scn))
    /\ stmts = CallerStmts(scn)
    /\ outcome = NotRun
    /\ trans = "" /\ target = "" /\ raised = "none"
    /\ task = <<>> /\ clauses = <<>>
    /\ gocean = <<>> /\ datatype = <<>>
    /\ modinfo = <<>> /\ accesses = <<>>

Validate ==
    /\ outcome.op = ""
    /\ outcome' = Ran("validate",
                      validate(TheCall(scn), scn, symbols, table, routine_table))
    /\ UNCHANGED <<scn, symbols, table, routine_table, stmts>>
    /\ UNCHANGED <<kindVars, taskVars, libVars, queryVars>>

Apply ==
    /\ outcome.op = ""
    /\ \E orphan \in OrphanOutcomes :
         LET r == apply(TheCall(scn), scn, symbols, table, routine_table,
                        stmts, orphan)
         IN /\ outcome' = Ran("apply", r.out)
            /\ symbols' = r.syms
            /\ table' = r.tbl
            /\ routine_table' = r.rtbl
            /\ stmts' = r.children
    /\ UNCHANGED scn
    /\ UNCHANGED <<kindVars, taskVars, libVars, queryVars>>

NextInline == Validate \/ Apply

SpecInline == InitInline /\ [][NextInline]_vars

(***************************************************************************)
(* Properties of InlineTrans.  What is expected of the transformation is   *)
(* written from the scenario alone, not from the operators above.          *)
(***************************************************************************)
Applied == outcome.op = "apply"
Validated == outcome.op = "validate"

\* validate() accepts the call of the scenario.
Accepted ==
    validate(TheCall(scn), scn, InitSymbols(scn), CallerTable(scn),
             RoutineTable(scn)).exc = ""

\* The routine of the call is found in the file.
RoutineFound == scn.rsym = "local"

\* The body of the routine without a trailing Return.
BodyProper ==
    IF scn.body # <<>> /\ scn.body[Len(scn.body)] = "return"
    THEN SubSeq(scn.body, 1, Len(scn.body) - 1)
    ELSE scn.body

BeginsWithReturn == scn.body # <<>> /\ scn.body[1] = "return"

\* The statement sb of the routine with every reference to a dummy argument
\* replaced by the actual argument of the call: the actual argument itself
\* for a plain reference, and for an indexed one the array of the actual
\* argument with the substituted index.
ActualFor(id) == IF id = "r_p" THEN ActualArg(scn.ap) ELSE ActualArg(scn.aq)
RECURSIVE Substituted(_)
Substituted(n) ==
    LET kids == [i \in Range1(Len(n.kids)) |-> Substituted(n.kids[i])]
    IN IF n.k = "Reference" /\ n.sym \in {"r_p", "r_q"} THEN ActualFor(n.sym)
       ELSE IF n.k = "ArrayReference" /\ n.sym \in {"r_p", "r_q"}
       THEN ArrayReference(ActualFor(n.sym).sym, kids)
       ELSE [n EXCEPT !.kids = kids]

InlinedBody ==
    [i \in Range1(Len(BodyProper)) |-> Substituted(BodyStmt(BodyProper[i]))]

Before == SubSeq(CallerStmts(scn), 1, scn.pre)
After == SubSeq(CallerStmts(scn), scn.pre + 2, Len(CallerStmts(scn)))

\* Every node has the children its class asks for.
RECURSIVE StructurallyValid(_)
StructurallyValid(n) ==
    /\ n.k \in {"Assignment", "BinaryOperation", "IfBlock"} => Len(n.kids) = 2
    /\ n.k # "!raise"
    /\ \A i \in Range1(Len(n.kids)) : StructurallyValid(n.kids[i])

\* C1: whenever apply raises, the caller's statements (the Call among them)
\* and the call-site symbol table, with the names and interfaces of its
\* symbols, are what they were before the call.
C1_Atomic ==
    (Applied /\ outcome.exc # "") =>
        /\ stmts = CallerStmts(scn)
        /\ table = CallerTable(scn)
        /\ \A i \in Range1(Len(table)) :
              symbols[table[i]] = InitSymbols(scn)[table[i]]

\* C2: after apply on an accepted call to a subroutine whose body has
\* statements s1..sn besides a trailing Return, the caller holds, where the
\* Call was, s1..sn in order with the dummy arguments replaced by the actual
\* ones, the statements before and after the Call are around them and the
\* Call is gone.  (Stated for actual arguments that are references.)
C2_Splice ==
    (Applied /\ ~scn.fn /\ Accepted /\ ~BeginsWithReturn /\ BodyProper # <<>>
       /\ IsReference(ActualArg(scn.ap)) /\ IsReference(ActualArg(scn.aq))) =>
        /\ outcome.exc = ""
        /\ stmts = Before \o InlinedBody \o After
        /\ \A i \in Range1(Len(stmts)) : ~contains(stmts[i], TheCall(scn))

\* C3: after apply on an accepted call to a function, the statements of the
\* body stand immediately before the statement that holds the Call, the Call
\* is replaced by a Reference to the return symbol, that symbol has a name no
\* other symbol of the call-site table has, and the tree is valid.
C3_Function ==
    (Applied /\ scn.fn /\ Accepted /\ ~BeginsWithReturn /\ BodyProper # <<>>) =>
        /\ outcome.exc = ""
        /\ stmts = Before \o InlinedBody
                   \o <<replace_with(CallStatement(scn), TheCall(scn),
                                     Reference("r_f"))>>
                   \o After
        /\ \A i \in Range1(Len(table)) :
              table[i] # "r_f" => symbols[table[i]].name # symbols["r_f"].name
        /\ symbols["r_f"].name \notin names_of(InitSymbols(scn), CallerTable(scn))
        /\ \A i \in Range1(Len(stmts)) : StructurallyValid(stmts[i])

\* The rank of an actual argument, whatever kind of expression it is.
ActualRank(a) == IF a \in {"a", "a(:)", "a(2:3)", "a+1"} THEN 1 ELSE 0

\* C4: validate raises a TransformationError that gives both ranks whenever
\* the rank of the array dummy argument p differs from the rank of the actual
\* argument passed for it, and changes nothing.
C4_RankMismatch ==
    (Validated /\ RoutineFound /\ scn.body # <<>> /\ ~BeginsWithReturn
       /\ scn.rank >= 1 /\ ActualRank(scn.ap) # scn.rank) =>
        /\ outcome.exc = "TransformationError"
        /\ outcome.why = "reshape"
        /\ outcome.info = <<ActualRank(scn.ap), scn.rank>>
        /\ stmts = CallerStmts(scn) /\ table = CallerTable(scn)
        /\ symbols = InitSymbols(scn)

\* The Return statements of the body of the scenario: how many there are, at
\* any depth, and whether the last statement is one.
NumReturns ==
    Cardinality({i \in Range1(Len(scn.body)) : scn.body[i] \in {"return", "ifret"}})
FinalReturn == scn.body # <<>> /\ scn.body[Len(scn.body)] = "return"
ReturnsAllowed == NumReturns = 0 \/ (NumReturns = 1 /\ FinalReturn)

ImportsOf(tbl) == {id \in SeqToSet(tbl) : BaseSymbols[id].iface = "import"}
ContainerName(id) == BaseSymbols[BaseSymbols[id].cont].name
ClashingImports ==
    \E c \in ImportsOf(CallerTable(scn)), r \in ImportsOf(RoutineTable(scn)) :
        /\ BaseSymbols[c].name = BaseSymbols[r].name
        /\ ContainerName(c) # ContainerName(r)

\* C6 (as stated): validate raises TransformationError whenever a name is
\* imported at the call site and in the routine from different containers,
\* and does not raise for this reason when the container is the same.
C6_Original ==
    Validated =>
        /\ ClashingImports => outcome.exc = "TransformationError"
        /\ ~ClashingImports => outcome.why # "import clash"

\* C6 (amended): the same, for a routine whose body is not empty and does not
\* begin with a Return.
C6_ImportClash ==
    Validated =>
        /\ (ClashingImports /\ scn.body # <<>> /\ ~BeginsWithReturn) =>
              outcome.exc = "TransformationError"
        /\ ~ClashingImports => outcome.why # "import clash"

C6_Witness ==
    /\ Validated /\ ClashingImports /\ outcome.why = "import clash"

\* C7: no symbol that is imported before apply, at the call site or in the
\* routine, has another name after it.
C7_ImportsKeepNames ==
    Applied =>
        \A id \in ImportsOf(CallerTable(scn)) \cup ImportsOf(RoutineTable(scn)) :
            symbols[id].name = BaseSymbols[id].name

\* C26: apply() does not change the routine that is inlined: whether it
\* returns or raises, the symbols of the table of the routine have the
\* names and the interfaces they had, and the table holds the same
\* symbols.
C26_RoutineUnchanged ==
    Applied =>
        /\ routine_table = RoutineTable(scn)
        /\ \A id \in SeqToSet(RoutineTable(scn)) :
              symbols[id] = InitSymbols(scn)[id]

\* apply() returned.
Inlined == Applied /\ outcome.exc = ""

\* The References of the statements of the caller.
CallerReferences == SeqToSet(walk_all(stmts, ReferenceKinds))

\* C27: after a successful apply no two symbols of the call-site table have
\* the same name, and every Reference of the caller, those of the inlined
\* statements included, refers to the symbol that the scope of the call
\* site gives for the name of its symbol: none refers to a dummy argument
\* of the routine or to a symbol of the routine that is not in the table.
C27_ReferencesInScope ==
    Inlined =>
        /\ \A x, y \in Range1(Len(table)) :
              x # y => symbols[table[x]].name # symbols[table[y]].name
        /\ \A ref \in CallerReferences :
              lookup(symbols, table, ContainerTable, symbols[ref.sym].name)
                  = ref.sym

(***************************************************************************)
(* The check of the kind of the node in the validate() methods of          *)
(* InlineTrans, KernTrans, GOMoveIterationBoundariesInsideKernelTrans and  *)
(* Matmul2CodeTrans.  A node handed to validate() is a record of its class *)
(* (k), its operator (op), the class of its parent (parent, "" for none)   *)
(* and, for KernTrans, whether the metadata name has been set.             *)
(***************************************************************************)
Transformations ==
    {"InlineTrans", "KernTrans", "GOMoveIterationBoundariesInsideKernelTrans",
     "Matmul2CodeTrans"}

NodeClasses ==
    {"Call", "Reference", "Literal", "Assignment", "Loop", "BinaryOperation",
     "UnaryOperation", "Routine", "Container", "FileContainer", "CodedKern",
     "GOKern"}

\* The classes a class derives from, itself included.
Bases(k) ==
    CASE k = "FileContainer" -> {"FileContainer", "Container"}
      [] k = "GOKern" -> {"GOKern", "CodedKern"}
      [] OTHER -> {k}

isinstance(node, cls) == cls \in Bases(node.k)

\* The exception classes that are names of the module of each
\* transformation: those its import statements bind.
ModuleNames(t) ==
    CASE t = "InlineTrans" -> {"InternalError", "TransformationError"}
      [] t = "KernTrans" -> {"TransformationError"}
      [] t = "GOMoveIterationBoundariesInsideKernelTrans" -> {"TransformationError"}
      [] t = "Matmul2CodeTrans" -> {}

\* raise cls(...) in the module of transformation t: the name cls is looked
\* up when the statement runs, and a name the module does not bind is a
\* NameError.
raise_in(t, cls) == IF cls \in ModuleNames(t) THEN cls ELSE "NameError"

\* InlineTrans.validate, up to the check of the class of the node.
InlineTrans_validate(node) ==
    IF ~isinstance(node, "Call")
    THEN raise_in("InlineTrans", "TransformationError")
    ELSE ""

\* KernTrans.validate, up to the check of the metadata name.
KernTrans_validate(node) ==
    IF ~isinstance(node, "Container")
    THEN raise_in("KernTrans", "TransformationError")
    ELSE IF node.parent # ""
    THEN raise_in("KernTrans", "TransformationError")
    ELSE IF ~node.metadata_name
    THEN raise_in("KernTrans", "TransformationError")
    ELSE ""

\* GOMoveIterationBoundariesInsideKernelTrans.validate
GOMoveIterationBoundariesInsideKernelTrans_validate(kernel) ==
    IF ~isinstance(kernel, "CodedKern")
    THEN raise_in("GOMoveIterationBoundariesInsideKernelTrans",
                  "TransformationError")
    ELSE ""

\* Matmul2CodeTrans.validate, up to the check of the parent.
Matmul2CodeTrans_validate(node) ==
    IF ~isinstance(node, "BinaryOperation")
    THEN raise_in("Matmul2CodeTrans", "TransformationError")
    ELSE IF node.op # "MATMUL"
    THEN raise_in("Matmul2CodeTrans", "TransformationError")
    ELSE IF node.parent # "Assignment"
    THEN raise_in("Matmul2CodeTrans", "TransformationError")
    ELSE ""

Targets ==
    [k : NodeClasses, op : {"MATMUL", "ADD"},
     parent : {"", "Assignment", "Schedule"}, metadata_name : BOOLEAN]

InitKinds ==
    /\ trans \in Transformations
    /\ target \in Targets
    /\ raised = "none"
    /\ scn = <<>> /\ symbols = <<>> /\ table = <<>> /\ routine_table = <<>>
    /\ stmts = <<>> /\ outcome = NotRun
    /\ task = <<>> /\ clauses = <<>>
    /\ gocean = <<>> /\ datatype = <<>>
    /\ modinfo = <<>> /\ accesses = <<>>

\* t.validate(target) is called.
ValidateKind ==
    /\ raised = "none"
    /\ raised' =
         CASE trans = "InlineTrans" -> InlineTrans_validate(target)
           [] trans = "KernTrans" -> KernTrans_validate(target)
           [] trans = "GOMoveIterationBoundariesInsideKernelTrans" ->
                GOMoveIterationBoundariesInsideKernelTrans_validate(target)
           [] trans = "Matmul2CodeTrans" -> Matmul2CodeTrans_validate(target)
    /\ UNCHANGED <<trans, target>>
    /\ UNCHANGED <<inlineVars, taskVars, libVars, queryVars>>

NextKinds == ValidateKind

SpecKinds == InitKinds /\ [][NextKinds]_vars

\* The class each transformation expects of its target.
ExpectedClass(t) ==
    CASE t = "InlineTrans" -> "Call"
      [] t = "KernTrans" -> "Container"
      [] t = "GOMoveIterationBoundariesInsideKernelTrans" -> "CodedKern"
      [] t = "Matmul2CodeTrans" -> "BinaryOperation"

\* C8: validate(target) with a target that is not of the class the
\* transformation expects fails with a TransformationError and with no
\* other error.
C8_KindError ==
    (raised # "none" /\ ExpectedClass(trans) \notin Bases(target.k)) =>
        raised = "TransformationError"

(***************************************************************************)
(* DynamicOMPTaskDirective: the computation of the clauses of a task.      *)
(*                                                                         *)
(* tk is the task and what surrounds it: the names that are private or     *)
(* firstprivate in the enclosing parallel region (private, firstprivate),  *)
(* the parent loops from the innermost out (parents, each a variable and a *)
(* step), the rank of every array (rank) and the children of the Schedule  *)
(* of the directive (children).  st is the state of one computation: the   *)
(* five lists of references, the proxy loop variables (a dict, in order of *)
(* insertion), the child loop variables, the parent loops found, the       *)
(* index_list of the last array access evaluated and the exception raised, *)
(* if any, with the name its message gives.                                *)
(***************************************************************************)
Fail(st, exc, msg) ==
    IF st.exc # "" THEN st ELSE [st EXCEPT !.exc = exc, !.msg = msg]

append_new(list, node) == IF node \in SeqToSet(list) THEN list ELSE Append(list, node)

\* An element of an index_list: a node, or a list of nodes.
One(n) == [is_list |-> FALSE, items |-> <<n>>]
Many(ns) == [is_list |-> TRUE, items |-> ns]

\* _is_reference_private(ref)
_is_reference_private(tk, ref) == ref.sym \in tk.private \cup tk.firstprivate

\* self._proxy_loop_vars: membership and lookup by symbol.
is_proxy(st, sym) == \E i \in Range1(Len(st.proxy)) : st.proxy[i].sym = sym
proxy_of(st, sym) ==
    st.proxy[CHOOSE i \in Range1(Len(st.proxy)) : st.proxy[i].sym = sym]

\* _create_full_range_for_array(ref, index): lbound:UBOUND(ref, index+1).
_create_full_range_for_array(arrayref, index) ==
    Node("Range", arrayref, "", index + 1, <<>>)

\* int(node.value): the exception it raises, "" when it returns.  A node
\* that is not a Literal has no value; the value of a Literal is the text of
\* the constant, and int() takes none but the text of an integer (op holds
\* the intrinsic type of a Literal that is not an integer).
int_error(node) ==
    IF node.k # "Literal" THEN "AttributeError"
    ELSE IF node.op # "" THEN "ValueError"
    ELSE ""

\* The exception of the two conversions of lines 464-465 and 525-526.
conversion_error(step_expr, literal) ==
    IF int_error(step_expr) # "" THEN int_error(step_expr) ELSE int_error(literal)

\* math.ceil(literal_val / step_val) and literal_val % step_val
Ceil(literal_val, step_val) == -((-literal_val) \div step_val)
Modulo(literal_val, step_val) == literal_val % step_val

\* The offset of the first dependency (lines 277-294).
first_step(step_val, divisor) ==
    IF divisor > 1
    THEN BinaryOperation("MUL", Literal(divisor), Literal(step_val))
    ELSE Literal(step_val)

\* _create_binops_from_step_and_divisors(node, ref, step_val, divisor,
\* modulo, ref_index): the pair (binop, binop2).
_create_binops_from_step_and_divisors(node, ref, step_val, divisor, modulo, ref_index) ==
    LET step == first_step(step_val, divisor)
        step2 == IF divisor > 1
                 THEN IF divisor > 2
                      THEN BinaryOperation("MUL", Literal(divisor - 1),
                                           Literal(step_val))
                      ELSE Literal(step_val)
                 ELSE NoNode
        binop == IF ref_index = 0 THEN BinaryOperation(node.op, ref, step)
                 ELSE BinaryOperation(node.op, step, ref)
        binop2 == IF modulo = 0 THEN NoNode
                  ELSE IF step2 = NoNode THEN ref
                  ELSE IF ref_index = 0 THEN BinaryOperation(node.op, ref, step2)
                  ELSE BinaryOperation(node.op, step2, ref)
    IN <<binop, binop2>>

\* The element of the index_list made of the pair (binop, binop2).
binop_entry(pair) ==
    IF pair[2] # NoNode THEN Many(<<pair[1], pair[2]>>) ELSE One(pair[1])

\* Whether a reference used inside an index 'ref +/- literal' is taken as the
\* proxy of a parent loop variable (line 452): privacy is looked at after.
taken_as_proxy(tk, st, ref) == is_proxy(st, ref.sym)

\* _handle_index_binop(node, index_list, firstprivate_list, private_list):
\* the state it leaves and the elements it appends to index_list.  dim is
\* len(index_list) and arrayref the array that node indexes ("" when node is
\* a copy that has no parent).
_handle_index_binop(tk, st, node, dim, arrayref) ==
    LET ref_index == IF IsReference(node.kids[1]) THEN 0 ELSE 1
        ref == node.kids[ref_index + 1]
        literal == node.kids[2 - ref_index]
        binops(real_ref, parent_loop) ==
            _create_binops_from_step_and_divisors(
                node, real_ref, parent_loop.step_expr.val,
                Ceil(literal.val, parent_loop.step_expr.val),
                Modulo(literal.val, parent_loop.step_expr.val), ref_index)
        none == <<>>
    IN IF st.exc # "" THEN [st |-> st, entries |-> none]
       ELSE IF node.op \notin {"ADD", "SUB"}
       THEN [st |-> Fail(st, "GenerationError", "operator"), entries |-> none]
       ELSE IF ~(\/ IsReference(node.kids[1]) /\ node.kids[2].k = "Literal"
                 \/ node.kids[1].k = "Literal" /\ IsReference(node.kids[2]))
       THEN [st |-> Fail(st, "GenerationError", "children"), entries |-> none]
       ELSE IF taken_as_proxy(tk, st, ref)
       THEN LET p == proxy_of(st, ref.sym)
                err == conversion_error(p.parent_loop.step_expr, literal)
            IN IF err # ""
               THEN [st |-> Fail(st, err, "int"), entries |-> none]
               ELSE [st |-> st,
                     entries |-> [t \in Range1(Len(p.parent_node)) |->
                         binop_entry(binops(p.parent_node[t], p.parent_loop))]]
       ELSE IF _is_reference_private(tk, ref)
       THEN IF ref \in SeqToSet(st.private_list)
            THEN IF arrayref = ""
                 THEN [st |-> Fail(st, "AttributeError", "NoneType"),
                       entries |-> none]
                 ELSE [st |-> st,
                       entries |-> <<One(_create_full_range_for_array(
                                             arrayref, dim))>>]
            ELSE LET st1 == [st EXCEPT !.firstprivate_list =
                                          append_new(st.firstprivate_list, ref)]
                     parent_loop == st.parent_loops[IndexOf(st.parent_loop_vars,
                                                            ref.sym)]
                 IN IF ref.sym \in SeqToSet(st.parent_loop_vars)
                    THEN IF conversion_error(parent_loop.step_expr, literal) # ""
                         THEN [st |-> Fail(st, conversion_error(
                                   parent_loop.step_expr, literal), "int"),
                               entries |-> none]
                         ELSE [st |-> st1,
                               entries |-> <<binop_entry(binops(ref, parent_loop))>>]
                    ELSE [st |-> st1, entries |-> <<One(node)>>]
       ELSE [st |-> Fail(st, "GenerationError", ref.sym), entries |-> none]

\* The loop over the parent_node list of a proxy used directly as an index
\* (lines 641-660 and their copies): x holds the state (st) and the
\* index_list (il); dim counts from 0.
RECURSIVE proxy_parent_nodes(_, _, _, _)
proxy_parent_nodes(tk, x, dim, nodes) ==
    IF nodes = <<>> \/ x.st.exc # "" THEN x
    ELSE LET parent_ref == Head(nodes)
             quick == _handle_index_binop(tk, x.st, parent_ref, 0, "")
             more == IF parent_ref.k = "BinaryOperation"
                     THEN Flatten([e \in Range1(Len(quick.entries)) |->
                                      quick.entries[e].items])
                     ELSE <<parent_ref>>
             st1 == IF parent_ref.k = "BinaryOperation" THEN quick.st ELSE x.st
         IN IF st1.exc # "" THEN [x EXCEPT !.st = st1]
            ELSE IF ~x.il[dim + 1].is_list
            THEN [x EXCEPT !.st = Fail(st1, "AttributeError", "Node")]
            ELSE proxy_parent_nodes(tk,
                     [st |-> st1,
                      il |-> [x.il EXCEPT ![dim + 1].items = @ \o more]],
                     dim, Tail(nodes))

\* A Reference used directly as an index that is a proxy (lines 632-660).
proxy_index(tk, x, index, dim) ==
    LET il1 == IF Len(x.il) <= dim THEN Append(x.il, Many(<<>>)) ELSE x.il
    IN IF Len(il1) <= dim
       THEN [x EXCEPT !.st = Fail(x.st, "IndexError", "index_list")]
       ELSE proxy_parent_nodes(tk, [x EXCEPT !.il = il1], dim,
                               proxy_of(x.st, index.sym).parent_node)

\* A Reference used directly as an index (lines 610-671, 1171-1220 and the
\* like in the evaluation of a structure): mode is "read" or "write".
reference_index(tk, x, index, dim, arrayref, mode) ==
    LET st == x.st
        st1 == IF index \notin SeqToSet(st.private_list)
                  /\ index \notin SeqToSet(st.firstprivate_list)
               THEN [st EXCEPT !.firstprivate_list = Append(@, index)]
               ELSE st
        full_range == One(_create_full_range_for_array(arrayref, dim))
    IN IF ~_is_reference_private(tk, index)
       THEN [x EXCEPT !.st = Fail(st, "GenerationError", index.sym)]
       ELSE IF index.sym \in SeqToSet(st.child_loop_vars)
       THEN [st |-> st1, il |-> Append(x.il, full_range)]
       ELSE IF is_proxy(st, index.sym)
       THEN proxy_index(tk, [x EXCEPT !.st = st1], index, dim)
       ELSE IF mode = "read" \/ index \in SeqToSet(st1.firstprivate_list)
       THEN [st |-> st1, il |-> Append(x.il, One(index))]
       ELSE [st |-> st1, il |-> Append(x.il, full_range)]

\* One iteration of the loop over the indices of an array access.
evaluate_index(tk, x, index, dim, arrayref, mode) ==
    LET binop == _handle_index_binop(tk, x.st, index, Len(x.il), arrayref)
    IN IF x.st.exc # "" THEN x
       ELSE IF mode = "read"
       THEN IF index.k = "Reference"
            THEN reference_index(tk, x, index, dim, arrayref, mode)
            ELSE IF index.k = "BinaryOperation"
            THEN [st |-> binop.st, il |-> x.il \o binop.entries]
            ELSE IF index.k = "Literal"
            THEN [x EXCEPT !.il = Append(@, One(index))]
            ELSE [x EXCEPT !.st = Fail(x.st, "GenerationError", index.k)]
       ELSE IF index.k = "Literal"
            THEN [x EXCEPT !.il = Append(@, One(index))]
            ELSE IF IsReference(index)
            THEN reference_index(tk, x, index, dim, arrayref, mode)
            ELSE IF index.k = "BinaryOperation"
            THEN [st |-> binop.st, il |-> x.il \o binop.entries]
            ELSE x

RECURSIVE evaluate_indices(_, _, _, _, _, _)
evaluate_indices(tk, x, indices, dim, arrayref, mode) ==
    IF dim >= Len(indices) THEN x
    ELSE evaluate_indices(tk,
             evaluate_index(tk, x, indices[dim + 1], dim, arrayref, mode),
             indices, dim + 1, arrayref, mode)

\* The first node of every element only.
first_candidates(il) == << [d \in Range1(Len(il)) |-> il[d].items[1]] >>

\* itertools.product(*new_index_list): every choice of one node per element.
RECURSIVE product(_)
product(il) ==
    IF il = <<>> THEN << <<>> >>
    ELSE LET rest == product(Tail(il))
         IN Flatten([i \in Range1(Len(Head(il).items)) |->
                [j \in Range1(Len(rest)) |-> <<Head(il).items[i]>> \o rest[j]]])

\* ArrayReference.create(symbol, children), as the clause made of it: "" when
\* the symbol has not as many dimensions as there are children.
dependency_created(tk, sym, final_list) ==
    IF tk.rank[sym] = 0 \/ tk.rank[sym] # Len(final_list) THEN NoNode
    ELSE ArrayReference(sym, final_list)

RECURSIVE add_dependencies(_, _, _, _)
add_dependencies(tk, list, sym, combinations) ==
    IF combinations = <<>> THEN list
    ELSE add_dependencies(tk,
             append_new(list, dependency_created(tk, sym, Head(combinations))),
             sym, Tail(combinations))

\* The end of _evaluate_readonly_arrayref and _evaluate_write_arrayref: the
\* list added (the in_list or the out_list with the clauses of the access)
\* is kept and the array goes to the shared_list (lines 702-713).
arrayref_clauses(st, added, ref, mode) ==
    IF NoNode \in SeqToSet(added)
    THEN Fail(st, "GenerationError", "dimensions")
    ELSE IF mode = "read"
    THEN [st EXCEPT !.in_list = added,
                    !.shared_list = append_new(@, Reference(ref.sym))]
    ELSE [st EXCEPT !.out_list = added,
                    !.shared_list = append_new(@, Reference(ref.sym))]

\* The combinations of the indices found (x: the state and the index_list)
\* become the clauses of the access (lines 693-713).
arrayref_combinations(tk, x, ref, mode) ==
    IF x.st.exc # "" THEN x.st
    ELSE arrayref_clauses([x.st EXCEPT !.index_list = x.il],
             add_dependencies(tk,
                 IF mode = "read" THEN x.st.in_list ELSE x.st.out_list,
                 ref.sym, product(x.il)),
             ref, mode)

\* _evaluate_readonly_arrayref and _evaluate_write_arrayref: they differ in
\* the checks of the indices (mode) and in the list the clauses go to.
evaluate_arrayref(tk, st, ref, mode) ==
    arrayref_combinations(tk,
        evaluate_indices(tk, [st |-> st, il |-> <<>>], ref.kids, 0, ref.sym, mode),
        ref, mode)

\* The clauses of an access to an array member of a structure: sref_base
\* with its member replaced by one with the indices of each combination.
RECURSIVE add_member_dependencies(_, _, _, _)
add_member_dependencies(list, sym, name, combinations) ==
    IF combinations = <<>> THEN list
    ELSE add_member_dependencies(
             append_new(list, StructureReference(sym,
                                  ArrayMember(name, Head(combinations)))),
             sym, name, Tail(combinations))

\* The combinations of the indices found (x: the state and the index_list)
\* become the clauses of the access to the member (lines 780-805).
member_combinations(x, ref, array_access_member, mode) ==
    IF x.st.exc # "" THEN x.st
    ELSE IF mode = "read"
    THEN [x.st EXCEPT !.in_list = add_member_dependencies(
                          @, ref.sym, array_access_member.op, product(x.il)),
                      !.index_list = x.il,
                      !.shared_list = append_new(@, Reference(ref.sym))]
    ELSE [x.st EXCEPT !.out_list = add_member_dependencies(
                          @, ref.sym, array_access_member.op, product(x.il)),
                      !.index_list = x.il,
                      !.shared_list = append_new(@, Reference(ref.sym))]

\* _evaluate_structure_with_array_reference_read and .._write
evaluate_structure_with_array_reference(tk, st, ref, array_access_member, mode) ==
    member_combinations(
        evaluate_indices(tk, [st |-> st, il |-> <<>>],
                         array_access_member.kids, 0, ref.sym, "read"),
        ref, array_access_member, mode)

\* _evaluate_readonly_baseref(ref, private_list, firstprivate_list, in_list)
_evaluate_readonly_baseref(tk, st, ref) ==
    IF ref.sym \in tk.private \cup tk.firstprivate
    THEN IF ref \notin SeqToSet(st.private_list)
            /\ ref \notin SeqToSet(st.firstprivate_list)
         THEN [st EXCEPT !.firstprivate_list = Append(@, ref)]
         ELSE st
    ELSE [st EXCEPT !.in_list = append_new(@, ref)]

\* A write that leaves a shared scalar out of the shared_list.
_evaluate_write_baseref_unshared(tk, st, ref) ==
    IF ref.sym \in tk.private \cup tk.firstprivate
    THEN [st EXCEPT !.private_list = append_new(@, ref)]
    ELSE [st EXCEPT !.out_list = append_new(@, ref)]

\* _evaluate_write_baseref(ref, private_list, shared_list, out_list)
_evaluate_write_baseref(tk, st, ref) ==
    IF _is_reference_private(tk, ref)
    THEN [st EXCEPT !.private_list = append_new(@, ref)]
    ELSE [st EXCEPT !.shared_list = append_new(@, ref),
                    !.out_list = append_new(@, ref)]

\* _evaluate_readonly_reference and _evaluate_write_reference (mode).
evaluate_reference(tk, st, ref, mode) ==
    LET array_children == walk(ref, {"ArrayMember"})
        base_ref == Reference(ref.sym)
    IN IF st.exc # "" THEN st
       ELSE IF ref.k = "ArrayReference" THEN evaluate_arrayref(tk, st, ref, mode)
       ELSE IF ref.k = "StructureReference"
       THEN IF Len(array_children) > 1
            THEN Fail(st, "GenerationError", "members")
            ELSE IF Len(array_children) = 1
            THEN evaluate_structure_with_array_reference(
                     tk, st, ref, array_children[1], mode)
            ELSE IF mode = "read" THEN _evaluate_readonly_baseref(tk, st, base_ref)
            ELSE _evaluate_write_baseref(tk, st, base_ref)
       ELSE IF ref.k = "Reference"
       THEN IF mode = "read" THEN _evaluate_readonly_baseref(tk, st, ref)
            ELSE _evaluate_write_baseref(tk, st, ref)
       ELSE IF mode = "read" THEN st
       ELSE Fail(st, "InternalError", "LHS")

RECURSIVE evaluate_readonly_references(_, _, _)
evaluate_readonly_references(tk, st, refs) ==
    IF refs = <<>> THEN st
    ELSE evaluate_readonly_references(
             tk, evaluate_reference(tk, st, Head(refs), "read"), Tail(refs))

\* node.walk(Reference) with, for every Reference, the class of its parent.
RECURSIVE walk_with_parent(_, _)
walk_with_parent(n, parent) ==
    (IF IsReference(n) THEN << [ref |-> n, parent |-> parent] >> ELSE <<>>)
    \o Flatten([i \in Range1(Len(n.kids)) |-> walk_with_parent(n.kids[i], n.k)])

\* isinstance(node, ArrayMixin), by class.
ArrayMixinKinds == {"ArrayReference", "ArrayMember"}

\* self._proxy_loop_vars[lhs.symbol] gets rhs: appended to the parent_node of
\* an entry that exists, or as a new entry.
record_proxy(st, lhs_sym, rhs, parent_var, parent_loop) ==
    IF is_proxy(st, lhs_sym)
    THEN LET i == CHOOSE j \in Range1(Len(st.proxy)) : st.proxy[j].sym = lhs_sym
         IN [st EXCEPT !.proxy[i].parent_node = append_new(@, rhs)]
    ELSE [st EXCEPT !.proxy = Append(@, [sym |-> lhs_sym,
                                         parent_var |-> parent_var,
                                         parent_node |-> <<rhs>>,
                                         parent_loop |-> parent_loop])]

\* Which assignments make a proxy of their left-hand side (lines 1440-1466):
\* those whose right-hand side refers, outside any array index, to a parent
\* loop variable.
proxy_of_parent(st, lhs, rhs) ==
    LET refs == SelectSeq(walk_with_parent(rhs, ""),
                    LAMBDA r : r.parent \notin ArrayMixinKinds
                               /\ r.ref.sym \in SeqToSet(st.parent_loop_vars))
        parent_var == refs[1].ref.sym
    IN IF refs = <<>> THEN st
       ELSE record_proxy(st, lhs.sym, rhs, parent_var,
                st.parent_loops[IndexOf(st.parent_loop_vars, parent_var)])

\* The same for a right-hand side that refers to a proxy (lines 1467-1503).
proxy_of_proxy(st, lhs, rhs) ==
    LET key_list == [i \in Range1(Len(st.proxy)) |-> st.proxy[i].sym]
        refs == SelectSeq(walk_with_parent(rhs, ""),
                    LAMBDA r : r.parent \notin ArrayMixinKinds
                               /\ r.ref.sym \in SeqToSet(key_list))
        index == IndexOf(key_list, refs[1].ref.sym)
    IN IF refs = <<>> THEN st
       ELSE IF is_proxy(st, lhs.sym)
       THEN record_proxy(st, lhs.sym, rhs, "", <<>>)
       ELSE IF index > Len(st.parent_loops)
       THEN Fail(st, "IndexError", "_parent_loops")
       ELSE [record_proxy(st, lhs.sym, rhs, st.proxy[index].parent_var,
                          st.parent_loops[index])
               EXCEPT !.parent_loops = Append(@, st.parent_loops[index])]

\* The end of _evaluate_assignment (lines 1509-1512): every Reference of the
\* right-hand side is read.
assignment_reads(tk, proxied, rhs) ==
    IF proxied.exc # "" THEN proxied
    ELSE evaluate_readonly_references(tk, proxied, walk(rhs, ReferenceKinds))

\* The two loops of _evaluate_assignment that make the left-hand side a proxy
\* (lines 1423-1507), once the left-hand side is written.
assignment_proxies(tk, written, lhs, rhs) ==
    IF written.exc # "" THEN written
    ELSE assignment_reads(tk,
             proxy_of_proxy(proxy_of_parent(written, lhs, rhs), lhs, rhs), rhs)

\* _evaluate_assignment(node, ...)
_evaluate_assignment(tk, st, node) ==
    assignment_proxies(tk, evaluate_reference(tk, st, node.kids[1], "write"),
                       node.kids[1], node.kids[2])

\* Bounds taken without a look at the class of their references.
RECURSIVE bound_references_unchecked(_, _)
bound_references_unchecked(st, refs) ==
    IF refs = <<>> \/ st.exc # "" THEN st
    ELSE bound_references_unchecked(
             [st EXCEPT !.firstprivate_list = append_new(@, Reference(Head(refs).sym))],
             Tail(refs))

\* The loops of _evaluate_loop over the References of the start, stop and
\* step expressions (lines 1609-1680).
RECURSIVE bound_references(_, _)
bound_references(st, refs) ==
    IF refs = <<>> \/ st.exc # "" THEN st
    ELSE LET ref == IF Head(refs).k = "StructureReference"
                    THEN Reference(Head(refs).sym) ELSE Head(refs)
             st1 == IF Head(refs).k = "StructureReference"
                    THEN [st EXCEPT !.shared_list = append_new(@, ref),
                                    !.in_list = append_new(@, ref)]
                    ELSE st
             st2 == IF ref \notin SeqToSet(st1.firstprivate_list)
                       /\ ref \notin SeqToSet(st1.private_list)
                       /\ ref \notin SeqToSet(st1.shared_list)
                    THEN [st1 EXCEPT !.firstprivate_list = Append(@, ref)]
                    ELSE st1
         IN IF Head(refs).k \in {"ArrayReference", "ArrayOfStructuresReference"}
            THEN Fail(st, "GenerationError", Head(refs).k)
            ELSE bound_references(st2, Tail(refs))

\* The first remove of a value from a list.
remove(list, v) ==
    IF v \notin SeqToSet(list) THEN list
    ELSE SubSeq(list, 1, IndexOf(list, v) - 1)
         \o SubSeq(list, IndexOf(list, v) + 1, Len(list))

\* self._proxy_loop_vars[loop_var] = subdict: the entry of loop_var is
\* replaced where it is, or added.
set_proxy(st, entry) ==
    IF is_proxy(st, entry.sym)
    THEN [st EXCEPT !.proxy =
            [i \in Range1(Len(st.proxy)) |->
                IF st.proxy[i].sym = entry.sym THEN entry ELSE st.proxy[i]]]
    ELSE [st EXCEPT !.proxy = Append(@, entry)]

RECURSIVE _evaluate_node(_, _, _)
RECURSIVE evaluate_nodes(_, _, _)

\* _evaluate_loop(node, ...)
_evaluate_loop(tk, st, node) ==
    LET loop_var == node.sym
        loop_var_ref == Reference(loop_var)
        start_val_refs == walk(node.kids[1], ReferenceKinds)
        proxied == Len(start_val_refs) = 1
                   /\ start_val_refs[1].sym \in SeqToSet(st.parent_loop_vars)
        parent_var == start_val_refs[1].sym
        st1 == IF proxied
               THEN set_proxy(st, [sym |-> loop_var, parent_var |-> parent_var,
                          parent_node |-> <<Reference(parent_var)>>,
                          parent_loop |-> st.parent_loops[
                              IndexOf(st.parent_loop_vars, parent_var)]])
               ELSE [st EXCEPT !.child_loop_vars = Append(@, loop_var)]
        st2 == IF loop_var_ref \notin SeqToSet(st1.firstprivate_list)
               THEN [st1 EXCEPT !.private_list = append_new(@, loop_var_ref)]
               ELSE st1
        st3 == IF proxied
               THEN [st2 EXCEPT !.firstprivate_list =
                                    append_new(@, Reference(parent_var))]
               ELSE st2
        st4 == bound_references(bound_references(bound_references(
                   st3, start_val_refs), walk(node.kids[2], ReferenceKinds)),
                   walk(node.kids[3], ReferenceKinds))
        st5 == evaluate_nodes(tk, st4, node.kids[4].kids)
    IN IF st.exc # "" THEN st
       ELSE IF loop_var \notin tk.private \cup tk.firstprivate
       THEN Fail(st1, "GenerationError", loop_var)
       ELSE IF st5.exc # "" THEN st5
       ELSE IF proxied
       THEN [st5 EXCEPT !.proxy = SelectSeq(@, LAMBDA p : p.sym # loop_var)]
       ELSE [st5 EXCEPT !.child_loop_vars = remove(@, loop_var)]

\* _evaluate_ifblock(node, ...): the model's IfBlock has no else_body.
_evaluate_ifblock(tk, st, node) ==
    evaluate_nodes(tk,
        evaluate_readonly_references(tk, st, walk(node.kids[1], ReferenceKinds)),
        node.kids[2].kids)

\* _evaluate_node(node, ...)
_evaluate_node(tk, st, node) ==
    IF st.exc # "" THEN st
    ELSE IF node.k = "Assignment" THEN _evaluate_assignment(tk, st, node)
    ELSE IF node.k = "Loop" THEN _evaluate_loop(tk, st, node)
    ELSE IF node.k = "IfBlock" THEN _evaluate_ifblock(tk, st, node)
    ELSE st

evaluate_nodes(tk, st, nodes) ==
    IF nodes = <<>> THEN st
    ELSE evaluate_nodes(tk, _evaluate_node(tk, st, Head(nodes)), Tail(nodes))

\* The state _compute_clauses starts from, once _find_parent_loop_vars has
\* run on a directive that has not computed its clauses before.
_find_parent_loop_vars(tk) ==
    LET st == [private_list |-> <<>>, firstprivate_list |-> <<>>,
               shared_list |-> <<>>, in_list |-> <<>>, out_list |-> <<>>,
               proxy |-> <<>>, child_loop_vars |-> <<>>, index_list |-> <<>>,
               parent_loop_vars |-> [i \in Range1(Len(tk.parents)) |->
                                        tk.parents[i].var],
               parent_loops |-> tk.parents, exc |-> "", msg |-> ""]
    IN IF ~tk.parallel THEN Fail(st, "GenerationError", "OMPParallelDirective")
       ELSE st

\* The checks of the children of the directive and the evaluation of its
\* loop (_compute_clauses, lines 1873-1907), from the state st0.
evaluate_task(tk, st0) ==
    IF st0.exc # "" THEN st0
    ELSE IF Len(tk.children) # 1
    THEN Fail(st0, "GenerationError", "children")
    ELSE IF tk.children[1].k # "Loop"
    THEN Fail(st0, "GenerationError", "Loop")
    ELSE _evaluate_node(tk, st0, tk.children[1])

\* The clauses made of the lists (_compute_clauses, lines 1909-1947): what is
\* firstprivate in the parallel region is not private to the task.
clauses_of(tk, st) ==
    LET moved == SelectSeq(st.private_list, LAMBDA r : r.sym \in tk.firstprivate)
    IN [done |-> TRUE, exc |-> st.exc, msg |-> st.msg,
        private |-> SelectSeq(st.private_list,
                              LAMBDA r : r.sym \notin tk.firstprivate),
        firstprivate |-> st.firstprivate_list \o moved,
        shared |-> st.shared_list,
        in_ |-> st.in_list, out |-> st.out_list,
        index_list |-> st.index_list]

\* _compute_clauses(): the exception raised, if any, and the five clauses.
\* No symbol of the model is a constant, so the in clause holds all in_list.
_compute_clauses(tk) ==
    clauses_of(tk, evaluate_task(tk, _find_parent_loop_vars(tk)))

(***************************************************************************)
(* The tasks handed to the computation.  Inside a parallel region, a       *)
(* parent loop over i holds the directive; its loop over j has bounds that *)
(* are literals, scalars or, in some tasks, array or structure accesses;   *)
(* the body of that loop may first assign the scalar k and then reads or   *)
(* writes one element of the array a, of the array member d of the         *)
(* structure s or of the array c of rank 2.  i and n are private in the    *)
(* region, j and k may be; m is shared.  Some tasks assign the scalar l    *)
(* from k or j and have a second parent loop over o; l and o are private.  *)
(***************************************************************************)
IndexForms == {"ref", "ref+L", "L+ref", "ref-L", "L-ref"}

\* Indices of a shape the analysis does not support.
UnsupportedForms == {"ref*L", "ref+ref", "range", "call"}

\* The index expression of form f over variable v and literal l.
IndexExpr(f, v, l) ==
    CASE f = "ref"   -> Reference(v)
      [] f = "lit"   -> l
      [] f = "ref+L" -> BinaryOperation("ADD", Reference(v), l)
      [] f = "L+ref" -> BinaryOperation("ADD", l, Reference(v))
      [] f = "ref-L" -> BinaryOperation("SUB", Reference(v), l)
      [] f = "L-ref" -> BinaryOperation("SUB", l, Reference(v))
      [] f = "ref*L" -> BinaryOperation("MUL", Reference(v), l)
      [] f = "ref+ref" -> BinaryOperation("ADD", Reference(v), Reference("n"))
      [] f = "range" -> Range(TRUE)
      [] f = "call"  -> Call("f", <<Reference(v)>>)

\* A constant of the given intrinsic type: the integer l, or the real l.5.
Constant(kind, l) ==
    IF kind = "int" THEN Literal(l) ELSE Node("Literal", "", "REAL", l, <<>>)

\* The statements that assign k, if any.
PreStatement(pre) ==
    CASE pre = "k=i"   -> <<Assignment(Reference("k"), Reference("i"))>>
      [] pre = "k=i+1" -> <<Assignment(Reference("k"),
                              BinaryOperation("ADD", Reference("i"), Literal(1)))>>
      [] pre = "k=n"   -> <<Assignment(Reference("k"), Reference("n"))>>
      [] pre = "k=i;k=i+1" ->
            <<Assignment(Reference("k"), Reference("i")),
              Assignment(Reference("k"),
                         BinaryOperation("ADD", Reference("i"), Literal(1)))>>
      [] pre = "k=i;l=k" ->
            <<Assignment(Reference("k"), Reference("i")),
              Assignment(Reference("l"), Reference("k"))>>
      [] pre = "l=j"   -> <<Assignment(Reference("l"), Reference("j"))>>
      [] pre = "l=k;k=n" ->
            <<Assignment(Reference("l"), Reference("k")),
              Assignment(Reference("k"), Reference("n"))>>
      [] pre = "k=n;l=k" ->
            <<Assignment(Reference("k"), Reference("n")),
              Assignment(Reference("l"), Reference("k"))>>
      [] OTHER         -> <<>>

\* The statement that accesses the array.
AccessStatement(access, array, indices) ==
    CASE access = "read" ->
            Assignment(ArrayReference("b", <<Reference("j")>>),
                       ArrayReference(array, indices))
      [] access = "write" ->
            Assignment(ArrayReference(array, indices), Literal(0))
      [] access = "sread" ->
            Assignment(ArrayReference("b", <<Reference("j")>>),
                       StructureReference("s", ArrayMember("d", indices)))
      [] access = "swrite" ->
            Assignment(StructureReference("s", ArrayMember("d", indices)),
                       Literal(0))

\* An expression of a loop bound: a scalar that is private (n) or shared (m)
\* in the region, an element of an array, of an array of structures or of
\* an array member of a structure, or a member of a structure.
BoundExpr(bound) ==
    CASE bound = "n"      -> Reference("n")
      [] bound = "m"      -> Reference("m")
      [] bound = "a(1)"   -> ArrayReference("a", <<Literal(1)>>)
      [] bound = "s(1)%x" -> Node("ArrayOfStructuresReference", "s", "", 0,
                                  <<Member("x"), Literal(1)>>)
      [] bound = "s%d(1)" -> StructureReference("s", ArrayMember("d", <<Literal(1)>>))
      [] bound = "s%x"    -> StructureReference("s", Member("x"))
      [] bound = "n+a(1)" -> BinaryOperation("ADD", Reference("n"),
                                 ArrayReference("a", <<Literal(1)>>))

BoundKinds == {"n", "m", "a(1)", "s(1)%x", "s%d(1)", "s%x", "n+a(1)"}

\* The scenario every family varies.
DefaultScenario ==
    [step |-> 1, stepkind |-> "int", k_private |-> TRUE, j_private |-> TRUE,
     start |-> "1", boundpos |-> "none", bound |-> "n", pre |-> "",
     access |-> "read", form |-> "ref", var |-> "i", lit |-> 0,
     litkind |-> "int", form2 |-> "", lit2 |-> 0, extra |-> "",
     var2 |-> "i"]

\* Accesses to a or s%d by one index of a supported form.
IndexScenarios ==
    { [DefaultScenario EXCEPT !.step = S, !.k_private = kp, !.start = start,
          !.pre = pre, !.access = access, !.form = f, !.var = v,
          !.lit = IF f = "ref" THEN 0 ELSE l] :
        S \in 1..MaxStep, kp \in BOOLEAN, start \in {"1", "i"},
        pre \in {"", "k=i", "k=i+1", "k=n"},
        access \in {"read", "write", "sread", "swrite"},
        f \in IndexForms, v \in {"i", "j", "k", "n"}, l \in 0..MaxLit }

\* Accesses by an index of any shape, in a parent loop whose step is an
\* integer constant, a real constant or a variable.
ShapeScenarios ==
    { [DefaultScenario EXCEPT !.stepkind = sk, !.litkind = lk, !.start = start,
          !.access = access, !.form = f, !.var = v, !.lit = 1] :
        sk \in {"int", "real", "ref"}, lk \in {"int", "real"},
        start \in {"1", "i"}, access \in {"read", "write", "sread", "swrite"},
        f \in UnsupportedForms \cup {"ref+L", "L-ref"}, v \in {"i", "j"} }

\* Loops whose variable is private or not and whose start, stop or step is
\* one of the bound expressions.
LoopScenarios ==
    { [DefaultScenario EXCEPT !.j_private = jp, !.boundpos = pos, !.bound = b,
          !.access = access, !.var = "j"] :
        jp \in BOOLEAN, pos \in {"start", "stop", "step"}, b \in BoundKinds,
        access \in {"read", "write"} }

\* Accesses to the array c of rank 2.
ProductScenarios ==
    { [DefaultScenario EXCEPT !.step = S, !.pre = pre, !.access = access,
          !.form = f, !.var = v, !.lit = IF f = "ref" THEN 0 ELSE l,
          !.form2 = f2, !.lit2 = IF f2 = "ref" THEN 0 ELSE l2] :
        S \in 1..MaxStep, pre \in {"", "k=i", "k=i;k=i+1"},
        access \in {"read", "write"}, f \in {"ref", "ref+L", "ref-L"},
        v \in {"i", "k"}, l \in 0..MaxLit,
        f2 \in {"lit", "ref", "ref+L", "L-ref"}, l2 \in 1..MaxLit }

\* Accesses by an index over l, assigned from the proxy k or j, with or
\* without a second parent loop over o, inside or outside the loop over i.
ProxyScenarios ==
    { [DefaultScenario EXCEPT !.step = S, !.start = start, !.pre = pre,
          !.access = access, !.form = f, !.var = "l", !.lit = l,
          !.extra = extra] :
        S \in 1..MaxStep, start \in {"1", "i"}, pre \in {"k=i;l=k", "l=j"},
        access \in {"read", "write"}, f \in {"ref+L", "ref-L"},
        l \in 1..MaxLit, extra \in {"", "inner", "outer"} }

\* Tasks that read the scalar k and then write it, or write it and then
\* read it.
OrderScenarios ==
    { [DefaultScenario EXCEPT !.k_private = kp, !.pre = pre, !.access = access,
          !.form = f, !.var = v, !.lit = IF f = "ref" THEN 0 ELSE l] :
        kp \in BOOLEAN, pre \in {"l=k;k=n", "k=n;l=k"},
        access \in {"read", "write"}, f \in {"ref", "ref+L"},
        v \in {"i", "k", "l"}, l \in 1..MaxLit }

\* Accesses to the array c whose second index is over the variable j of
\* the loop of the task.
RangeScenarios ==
    { [DefaultScenario EXCEPT !.pre = pre, !.access = access, !.form = f,
          !.var = v, !.lit = IF f = "ref" THEN 0 ELSE l,
          !.form2 = f2, !.lit2 = IF f2 = "ref" THEN 0 ELSE 1, !.var2 = "j"] :
        pre \in {"", "k=i", "k=i;k=i+1"}, access \in {"read", "write"},
        f \in {"ref", "ref+L"}, v \in {"i", "k"}, l \in 1..MaxLit,
        f2 \in {"ref", "ref+L"} }

TaskScenarios ==
    IndexScenarios \cup ShapeScenarios \cup LoopScenarios \cup ProductScenarios
    \cup ProxyScenarios \cup OrderScenarios \cup RangeScenarios

\* The parent loops of a scenario, the innermost first: the loop over i,
\* and in some tasks a loop over o whose step is another.
ParentLoops(s) ==
    LET i == [var |-> "i",
              step_expr |-> IF s.stepkind = "ref" THEN Reference("n")
                            ELSE Constant(s.stepkind, s.step)]
        o == [var |-> "o", step_expr |-> Literal(s.step + 1)]
    IN CASE s.extra = "inner" -> <<o, i>>
         [] s.extra = "outer" -> <<i, o>>
         [] OTHER -> <<i>>

\* The bound of the loop over j at position pos, d when it is not the one
\* the scenario varies.
BoundOf(s, pos, d) == IF s.boundpos = pos THEN BoundExpr(s.bound) ELSE d

\* The task of a scenario.
TaskOf(s) ==
    [scenario |-> s,
     parallel |-> TRUE,
     private |-> {"i", "n", "l", "o"} \cup (IF s.k_private THEN {"k"} ELSE {})
                 \cup (IF s.j_private THEN {"j"} ELSE {}),
     firstprivate |-> {},
     parents |-> ParentLoops(s),
     rank |-> [sym \in {"a", "b", "c", "s", "i", "j", "k", "l", "n", "m", "o"} |->
                  IF sym \in {"a", "b"} THEN 1 ELSE IF sym = "c" THEN 2 ELSE 0],
     children |->
        << Loop("j",
                BoundOf(s, "start",
                        IF s.start = "i" THEN Reference("i") ELSE Literal(1)),
                BoundOf(s, "stop", Literal(10)),
                BoundOf(s, "step", Literal(1)),
                PreStatement(s.pre)
                \o <<AccessStatement(s.access,
                        IF s.form2 = "" THEN "a" ELSE "c",
                        <<IndexExpr(s.form, s.var, Constant(s.litkind, s.lit))>>
                        \o (IF s.form2 = "" THEN <<>>
                            ELSE <<IndexExpr(s.form2, s.var2, Literal(s.lit2))>>))>>) >>]

NotComputed ==
    [done |-> FALSE, exc |-> "", msg |-> "", private |-> <<>>,
     firstprivate |-> <<>>, shared |-> <<>>, in_ |-> <<>>, out |-> <<>>,
     index_list |-> <<>>]

InitTask ==
    /\ task \in {TaskOf(s) : s \in TaskScenarios}
    /\ clauses = NotComputed
    /\ scn = <<>> /\ symbols = <<>> /\ table = <<>> /\ routine_table = <<>>
    /\ stmts = <<>> /\ outcome = NotRun
    /\ trans = "" /\ target = "" /\ raised = "none"
    /\ gocean = <<>> /\ datatype = <<>>
    /\ modinfo = <<>> /\ accesses = <<>>

\* The clauses of the task are computed.
ComputeClauses ==
    /\ ~clauses.done
    /\ clauses' = _compute_clauses(task)
    /\ UNCHANGED task
    /\ UNCHANGED <<inlineVars, kindVars, libVars, queryVars>>

NextTask == ComputeClauses

SpecTask == InitTask /\ [][NextTask]_vars

(***************************************************************************)
(* Properties of the computation of the clauses.                           *)
(***************************************************************************)
TheScenario == task.scenario

\* The indices of the dependencies on the accessed array that the clauses
\* hold: those of a or s%d in the in clause (read) or the out clause (write).
DependencyIndices ==
    LET list == IF TheScenario.access \in {"read", "sread"}
                THEN clauses.in_ ELSE clauses.out
        arrays == SelectSeq(list, LAMBDA r : r.sym \in {"a", "s"} /\ r.kids # <<>>)
    IN [x \in Range1(Len(arrays)) |->
           IF arrays[x].k = "StructureReference" THEN arrays[x].kids[1].kids
           ELSE arrays[x].kids]

\* The value of an offset expression.
RECURSIVE Value(_)
Value(n) ==
    IF n.k = "Literal" THEN n.val
    ELSE IF n.k = "BinaryOperation" /\ n.op = "MUL"
    THEN Value(n.kids[1]) * Value(n.kids[2])
    ELSE -1

\* What an index says: the variable, the operator, the side the variable is
\* on and the offset; a plain reference is an offset of 0.
Decoded(index) ==
    IF index.k = "BinaryOperation"
    THEN LET side == IF IsReference(index.kids[1]) THEN 1 ELSE 2
         IN [ref |-> index.kids[side].sym, op |-> index.op, side |-> side,
             offset |-> Value(index.kids[3 - side])]
    ELSE [ref |-> index.sym, op |-> "", side |-> 0, offset |-> 0]

\* The index of the scenario is 'ref OP literal' over the parent loop
\* variable i, or over a private proxy of it (j when the loop starts at i,
\* k when it is assigned i).
IndexOverParentVariable ==
    /\ TheScenario \in IndexScenarios
    /\ TheScenario.form # "ref"
    /\ \/ TheScenario.var = "i"
       \/ TheScenario.var = "j" /\ TheScenario.start = "i"
       \/ TheScenario.var = "k" /\ TheScenario.pre = "k=i" /\ TheScenario.k_private

ExpectedOffsets ==
    LET L == TheScenario.lit
        S == TheScenario.step
        divisor == IF L % S = 0 THEN L \div S ELSE (L \div S) + 1
    IN IF L % S = 0 THEN {divisor * S} ELSE {divisor * S, (divisor - 1) * S}

\* C9: an index 'ref OP literal' over a parent loop variable of step S (or a
\* proxy of it) with literal L >= 0 yields one dependency index with offset
\* ceil(L/S)*S when L mod S = 0, and two, with offsets ceil(L/S)*S and
\* (ceil(L/S)-1)*S, otherwise, each with the operator and the operand order
\* of the index.
C9_Decomposition ==
    (clauses.done /\ IndexOverParentVariable) =>
        /\ clauses.exc = ""
        /\ Len(DependencyIndices) = Cardinality(ExpectedOffsets)
        /\ \A x \in Range1(Len(DependencyIndices)) :
              /\ Len(DependencyIndices[x]) = 1
              /\ LET d == Decoded(DependencyIndices[x][1])
                     orig == Decoded(IndexExpr(TheScenario.form, "i",
                                               Literal(TheScenario.lit)))
                 IN /\ d.ref = "i"
                    /\ d.offset \in ExpectedOffsets
                    /\ d.side # 0 => (d.op = orig.op /\ d.side = orig.side)
        /\ {Decoded(DependencyIndices[x][1]).offset :
               x \in Range1(Len(DependencyIndices))} = ExpectedOffsets

\* C10: the computation fails with a GenerationError that names the variable
\* whenever the index of the access is, or holds, a reference to a variable
\* that is not private or firstprivate in the parallel region.
C10_SharedIndex ==
    (clauses.done /\ TheScenario \in IndexScenarios
     /\ TheScenario.var \notin task.private \cup task.firstprivate) =>
        (clauses.exc = "GenerationError" /\ clauses.msg = TheScenario.var)

\* The computation returned its clauses.
Computed == clauses.done /\ clauses.exc = ""

Decomposed ==
    /\ TheScenario.form \in IndexForms \ {"ref"}
    /\ \/ TheScenario.var = "i"
       \/ TheScenario.var = "j" /\ TheScenario.start = "i"

\* The index of the access has a shape the analysis does not support.
UnsupportedIndex ==
    /\ TheScenario \in ShapeScenarios
    /\ \/ TheScenario.form \in UnsupportedForms
       \/ TheScenario.form \in IndexForms \ {"ref"} /\ TheScenario.litkind # "int"
       \/ Decomposed /\ TheScenario.stepkind # "int"

\* C12: the computation fails with a GenerationError whenever the index of
\* an array access, read or written, has an unsupported shape: an operator
\* other than + or -, operands other than a reference and a literal, a step
\* or an offset that is not an integer literal, or a node that is not a
\* Literal, a Reference or a BinaryOperation.
C12_Unsupported ==
    (clauses.done /\ UnsupportedIndex) => clauses.exc = "GenerationError"

\* The bound of the loop over j that the scenario varies holds an array
\* reference, in the classes the code rejects (ArrayReference and
\* ArrayOfStructuresReference) or in any class.
RejectedBounds == {"a(1)", "s(1)%x", "n+a(1)"}
BoundsWithArrays == RejectedBounds \cup {"s%d(1)"}
BoundsWithStructures == {"s%d(1)", "s%x"}

\* What C13 says of the loop variable.
LoopVariableClassified ==
    /\ ~TheScenario.j_private => clauses.exc = "GenerationError"
    /\ (TheScenario.j_private /\ clauses.exc = "") =>
          Reference("j") \in SeqToSet(clauses.private)
                             \cup SeqToSet(clauses.firstprivate)

\* C13 as stated: a bound that holds an array reference of any kind, that to
\* an array member of a structure included, is rejected.
C13_Original ==
    (clauses.done /\ TheScenario \in LoopScenarios) =>
        /\ LoopVariableClassified
        /\ TheScenario.bound \in BoundsWithArrays => clauses.exc = "GenerationError"

\* C13: a loop whose variable is not private in the region is rejected with
\* a GenerationError, else the variable is private, or firstprivate, in the
\* task; a start, stop or step that holds a reference to an array or to an
\* array of structures is rejected with a GenerationError, and one that holds
\* a reference to a structure, array members included, makes the structure
\* shared and an input dependency.
C13_Loops ==
    (clauses.done /\ TheScenario \in LoopScenarios) =>
        /\ LoopVariableClassified
        /\ TheScenario.bound \in RejectedBounds => clauses.exc = "GenerationError"
        /\ (TheScenario.bound \in BoundsWithStructures /\ TheScenario.j_private) =>
              /\ clauses.exc = ""
              /\ Reference("s") \in SeqToSet(clauses.shared)
              /\ Reference("s") \in SeqToSet(clauses.in_)

\* A loop whose stop is an array member of a structure has been analysed.
C13_Witness ==
    /\ Computed /\ TheScenario \in LoopScenarios
    /\ TheScenario.bound = "s%d(1)" /\ TheScenario.boundpos = "stop"
    /\ Reference("s") \in SeqToSet(clauses.shared)
    /\ Reference("j") \in SeqToSet(clauses.private)

\* The dependencies on the array c of rank 2, in the order they were added.
DependenciesOnC ==
    SelectSeq(IF TheScenario.access = "read" THEN clauses.in_ ELSE clauses.out,
              LAMBDA r : r.k = "ArrayReference" /\ r.sym = "c")

\* C14: the dependencies of an access to an array of k dimensions are the
\* elements of the Cartesian product of the k lists of candidates, each with
\* one candidate per dimension in the order of the dimensions, and none is
\* in the list twice.
C14_Product ==
    (Computed /\ TheScenario \in ProductScenarios) =>
        LET il == clauses.index_list
            expected == { ArrayReference("c", <<p, q>>) :
                            p \in SeqToSet(il[1].items),
                            q \in SeqToSet(il[2].items) }
        IN /\ Len(il) = 2
           /\ SeqToSet(DependenciesOnC) = expected
           /\ Len(DependenciesOnC) = Cardinality(expected)

\* An access whose two dimensions have two candidates each gave four
\* dependencies.
C14_Witness ==
    /\ Computed /\ TheScenario \in ProductScenarios
    /\ Len(clauses.index_list) = 2
    /\ Len(clauses.index_list[1].items) = 2
    /\ Len(clauses.index_list[2].items) = 2
    /\ Len(DependenciesOnC) = 4

\* The index of the access is 'l OP literal' and l was assigned from a
\* proxy of the parent loop variable i: from k, assigned i, or from the
\* variable j of a loop that starts at i.
ProxyOfProxy ==
    /\ TheScenario \in ProxyScenarios
    /\ \/ TheScenario.pre = "k=i;l=k"
       \/ TheScenario.pre = "l=j" /\ TheScenario.start = "i"

\* C25: a variable assigned from a proxy of a parent loop variable is a
\* proxy of the parent loop of that proxy: an index 'var +/- literal'
\* through it is decomposed with the step of that parent loop, whatever
\* the parent loops and the proxies recorded before.
C25_ProxyOfProxy ==
    (clauses.done /\ ProxyOfProxy) =>
        /\ clauses.exc = ""
        /\ \A x \in Range1(Len(DependencyIndices)) :
              Len(DependencyIndices[x]) = 1
        /\ {Decoded(DependencyIndices[x][1]).offset :
               x \in Range1(Len(DependencyIndices))} = ExpectedOffsets

\* The variables of a clause, one for each of its entries.
ClauseVariables(clause) == [x \in Range1(Len(clause)) |-> clause[x].sym]

\* No variable is twice in the clause.
NoVariableTwice(clause) ==
    \A x, y \in Range1(Len(clause)) : x # y => clause[x].sym # clause[y].sym

\* C29: no variable is in more than one of the clauses private,
\* firstprivate and shared, and none is twice in one of them, whatever the
\* order of the reads and writes of the variable inside the task.
C29_DataSharing ==
    Computed =>
        /\ NoVariableTwice(clauses.private)
        /\ NoVariableTwice(clauses.firstprivate)
        /\ NoVariableTwice(clauses.shared)
        /\ SeqToSet(ClauseVariables(clauses.private))
               \cap SeqToSet(ClauseVariables(clauses.firstprivate)) = {}
        /\ SeqToSet(ClauseVariables(clauses.private))
               \cap SeqToSet(ClauseVariables(clauses.shared)) = {}
        /\ SeqToSet(ClauseVariables(clauses.firstprivate))
               \cap SeqToSet(ClauseVariables(clauses.shared)) = {}

\* The analysis of the indices of the access came to its end: the clauses
\* were returned, or the dependency could not be created of the indices.
IndicesAnalysed ==
    /\ clauses.done
    /\ \/ clauses.exc = ""
       \/ clauses.exc = "GenerationError" /\ clauses.msg = "dimensions"

\* The number of index expressions of the access.
AccessDimensions == IF TheScenario.form2 = "" THEN 1 ELSE 2

\* The indices of the dependencies on the array accessed.
AccessDependencies ==
    LET list == IF TheScenario.access \in {"read", "sread"}
                THEN clauses.in_ ELSE clauses.out
        arrays == SelectSeq(list, LAMBDA r : r.sym \in {"a", "c", "s"}
                                             /\ r.kids # <<>>)
    IN {IF arrays[x].k = "StructureReference" THEN arrays[x].kids[1].kids
        ELSE arrays[x].kids : x \in Range1(Len(arrays))}

\* C30: every dimension of an array access gives one entry of the
\* index_list, a node or a list of candidates: the list has as many
\* entries as the access has dimensions, in their order, a full range is
\* that of the dimension of its entry, and every dependency made of the
\* list has as many indices.
C30_OneEntryPerDimension ==
    IndicesAnalysed =>
        /\ clauses.exc = ""
        /\ Len(clauses.index_list) = AccessDimensions
        /\ \A d \in Range1(Len(clauses.index_list)) :
              \A n \in SeqToSet(clauses.index_list[d].items) :
                  n.k = "Range" => n.val = d
        /\ \A indices \in AccessDependencies : Len(indices) = AccessDimensions

(***************************************************************************)
(* GOMoveIterationBoundariesInsideKernelTrans.apply(kernel).               *)
(*                                                                         *)
(* gocean holds the kernel call (cls, its class; arguments, the list of    *)
(* what it passes to the kernel, in order), the symbol table of the        *)
(* InvokeSchedule (invoke_st, the symbols in insertion order), the         *)
(* children of the parent of the outer loop (schedule, where the node      *)
(* "GOLoop" is the outer loop), the two loops (inner, outer), the symbol   *)
(* table of the kernel schedule (kernel_st), its argument list and its     *)
(* children (kschedule), the state before apply and what apply raised.     *)
(***************************************************************************)
DataSymbol(name, type, interface) ==
    [name |-> name, datatype |-> type, interface |-> interface]

\* The names of the symbols of a table.
symbol_names(st) == {st[x].name : x \in Range1(Len(st))}

\* SymbolTable.new_symbol_name(root_name): root_name if it is free, else the
\* first of root_name_1, root_name_2, ... that is.
new_symbol_name(st, root_name) ==
    IF root_name \notin symbol_names(st) THEN root_name
    ELSE Suffixed(root_name,
             CHOOSE n \in 1..(Len(st) + 1) :
                /\ Suffixed(root_name, n) \notin symbol_names(st)
                /\ \A x \in 1..(n - 1) : Suffixed(root_name, x) \in symbol_names(st))

\* list.append(x), whatever the index.
appended(list, index, x) == Append(list, x)

\* list.extend(items)
extend(list, items) == list \o items

\* kernel.arguments.raw_arg_list(): the list the arguments of the call
\* hold, not a copy of it.
raw_arg_list(g) == g.arguments

\* list.insert(index, x), index counted from 0.
insert(list, index, x) ==
    SubSeq(list, 1, index) \o <<x>> \o SubSeq(list, index + 1, Len(list))

\* Node.position of the outer loop among the children of its parent.
position_of_loop(schedule) ==
    (CHOOSE x \in Range1(Len(schedule)) : schedule[x].k = "GOLoop") - 1

\* GOLoop._lower_bound() and _upper_bound(): an expression made for the
\* field space and iteration space the loop has when it is called.
_lower_bound(loop) ==
    Node("lower_bound", loop.loop_type, loop.field_space \o ":" \o loop.iteration_space,
         0, <<>>)
_upper_bound(loop) ==
    Node("upper_bound", loop.loop_type, loop.field_space \o ":" \o loop.iteration_space,
         0, <<>>)

\* The loop once it goes through all the points of the field.
widened(loop) ==
    [loop EXCEPT !.field_space = "go_every", !.iteration_space = "go_all_pts"]

\* The roots of the names of the boundary variables, in the order of apply.
BoundaryNames == <<"xstart", "xstop", "ystart", "ystop">>

\* The update of the kernel call (lines 68-106): four symbols in the table
\* of the invoke, their names after the arguments of the call, four
\* assignments before the outer loop, the loops widened.
update_kernel_call(g) ==
    LET name == [x \in 1..4 |-> new_symbol_name(g.invoke_st, BoundaryNames[x])]
        cursor == position_of_loop(g.schedule)
        assign1 == Assignment(Reference(name[1]), _lower_bound(g.inner))
        assign2 == Assignment(Reference(name[2]), _upper_bound(g.inner))
        assign3 == Assignment(Reference(name[3]), _lower_bound(g.outer))
        assign4 == Assignment(Reference(name[4]), _upper_bound(g.outer))
    IN [g EXCEPT
          !.invoke_st = @ \o [x \in 1..4 |-> DataSymbol(name[x], "INTEGER_TYPE", "local")],
          !.arguments = extend(raw_arg_list(g), name),
          !.schedule = insert(insert(insert(insert(@, cursor, assign1),
                           cursor + 1, assign2), cursor + 2, assign3),
                           cursor + 3, assign4),
          !.inner = widened(@),
          !.outer = widened(@)]

\* GOSymbolTable.iteration_indices and data_arguments: the first two
\* arguments of the kernel and the others.
iteration_indices(arglist) == SubSeq(arglist, 1, 2)
data_arguments(arglist) == SubSeq(arglist, 3, Len(arglist))

\* The boundaries after all the arguments of the kernel.
appended_arguments(indices, boundaries, data) == indices \o data \o boundaries

\* The list handed to specify_argument_list (lines 145-148).
kernel_arguments(indices, boundaries, data) == indices \o boundaries \o data

\* The boundaries masking condition (lines 151-178).
masking_condition(indices, name) ==
    BinaryOperation("OR",
        BinaryOperation("OR",
            BinaryOperation("LT", Reference(indices[1]), Reference(name[1])),
            BinaryOperation("GT", Reference(indices[1]), Reference(name[2]))),
        BinaryOperation("OR",
            BinaryOperation("LT", Reference(indices[2]), Reference(name[3])),
            BinaryOperation("GT", Reference(indices[2]), Reference(name[4]))))

\* The update of the kernel (lines 115-183): four arguments after the
\* iteration indices and the masking IfBlock as the first statement.
update_kernel(g) ==
    LET name == [x \in 1..4 |-> new_symbol_name(g.kernel_st, BoundaryNames[x])]
    IN [g EXCEPT
          !.kernel_st = @ \o [x \in 1..4 |->
                            DataSymbol(name[x], "INTEGER_TYPE", "argument:READ")],
          !.argument_list = kernel_arguments(iteration_indices(@), name,
                                             data_arguments(@)),
          !.kschedule = insert(@, 0,
              IfBlock(masking_condition(iteration_indices(g.argument_list), name),
                      <<Return>>))]

\* apply(kernel)
GOMoveIterationBoundariesInsideKernelTrans_apply(g) ==
    IF GOMoveIterationBoundariesInsideKernelTrans_validate(g.cls) # ""
    THEN [g EXCEPT !.exc = GOMoveIterationBoundariesInsideKernelTrans_validate(g.cls),
                   !.applied = TRUE]
    ELSE [update_kernel(update_kernel_call(g)) EXCEPT !.applied = TRUE]

\* The statements of a schedule that apply does not look at.
Statements(n) == [x \in 1..n |-> Assignment(Reference("fld"), Literal(x))]

\* The invokes and kernels handed to apply: the call passes the two loop
\* variables and the data of the fields, one for each argument of the
\* kernel; the tables may hold symbols with the names apply asks for; the loops are over one of the field
\* spaces and iteration spaces of GOcean.
GoceanInputs ==
    { [cls |-> Node(cls, "", "", 0, <<>>),
       arguments |-> [x \in 1..Len(args) |->
                         IF x <= 2 THEN args[x] ELSE args[x] \o "%data"],
       invoke_st |-> [x \in 1..Len(taken) |-> DataSymbol(taken[x], "INTEGER_TYPE", "local")],
       schedule |-> Statements(pre) \o <<Node("GOLoop", "", "", 0, <<>>)>>
                    \o Statements(post),
       inner |-> [loop_type |-> "inner", field_space |-> sp[1], iteration_space |-> sp[2]],
       outer |-> [loop_type |-> "outer", field_space |-> sp[1], iteration_space |-> sp[2]],
       kernel_st |-> [x \in 1..Len(args) |->
                         DataSymbol(args[x], "INTEGER_TYPE", "argument:READWRITE")]
                     \o [x \in 1..Len(locals) |->
                            DataSymbol(locals[x], "INTEGER_TYPE", "local")],
       argument_list |-> args,
       kschedule |-> Statements(body),
       exc |-> "", applied |-> FALSE] :
        cls \in {"CodedKern", "GOKern", "Loop"},
        taken \in {<<>>, <<"xstart">>, <<"xstart", "xstart_1">>, <<"ystop">>,
                   <<"xstop", "ystart">>},
        pre \in 0..MaxPre, post \in 0..MaxPre,
        sp \in {<<"go_cu", "go_internal_pts">>, <<"go_ct", "go_all_pts">>,
                <<"go_every", "go_all_pts">>},
        args \in {<<"i", "j">>, <<"i", "j", "fld">>, <<"j", "i", "fld", "xstop">>},
        locals \in {<<>>, <<"xstart">>, <<"ystart", "ystart_1">>},
        body \in 0..MaxBody }

InitBoundaries ==
    /\ \E g \in GoceanInputs : gocean = [now |-> g, before |-> g]
    /\ datatype = <<>>
    /\ modinfo = <<>> /\ accesses = <<>>
    /\ scn = <<>> /\ symbols = <<>> /\ table = <<>> /\ routine_table = <<>>
    /\ stmts = <<>> /\ outcome = NotRun
    /\ trans = "" /\ target = "" /\ raised = "none"
    /\ task = <<>> /\ clauses = <<>>

\* The transformation is applied to the kernel.
ApplyBoundaries ==
    /\ ~gocean.now.applied
    /\ gocean' = [gocean EXCEPT
                    !.now = GOMoveIterationBoundariesInsideKernelTrans_apply(@)]
    /\ UNCHANGED datatype
    /\ UNCHANGED queryVars
    /\ UNCHANGED <<inlineVars, kindVars, taskVars>>

NextBoundaries == ApplyBoundaries

SpecBoundaries == InitBoundaries /\ [][NextBoundaries]_vars

(***************************************************************************)
(* Properties of GOMoveIterationBoundariesInsideKernelTrans.apply.         *)
(***************************************************************************)
BoundariesMoved == gocean.now.applied /\ gocean.now.exc = ""

\* name was free among the names old and is root, or root with a number.
NamedAfter(name, root, old) ==
    /\ name \notin old
    /\ \/ name = root
       \/ \E x \in 1..(Cardinality(old) + 1) : name = Suffixed(root, x)

\* C15: after apply the arguments of the kernel are its iteration indices,
\* then four new integer arguments read only, named after xstart, xstop,
\* ystart and ystop in this order, then its data arguments as they were; the
\* first statement of the kernel is an IfBlock with a single Return and the
\* condition (i < xstart OR i > xstop) OR (j < ystart OR j > ystop), i and j
\* the first two arguments, and the statements it had follow unchanged.
C15_KernelArguments ==
    BoundariesMoved =>
        LET old == gocean.before
            new == gocean.now
            args == new.argument_list
            i == old.argument_list[1]
            j == old.argument_list[2]
        IN /\ Len(args) = Len(old.argument_list) + 4
           /\ SubSeq(args, 1, 2) = <<i, j>>
           /\ SubSeq(args, 7, Len(args))
                 = SubSeq(old.argument_list, 3, Len(old.argument_list))
           /\ \A x \in 1..4 :
                 /\ NamedAfter(args[x + 2], BoundaryNames[x],
                               symbol_names(old.kernel_st))
                 /\ DataSymbol(args[x + 2], "INTEGER_TYPE", "argument:READ")
                        \in SeqToSet(new.kernel_st)
           /\ new.kschedule[1] =
                 IfBlock(BinaryOperation("OR",
                     BinaryOperation("OR",
                         BinaryOperation("LT", Reference(i), Reference(args[3])),
                         BinaryOperation("GT", Reference(i), Reference(args[4]))),
                     BinaryOperation("OR",
                         BinaryOperation("LT", Reference(j), Reference(args[5])),
                         BinaryOperation("GT", Reference(j), Reference(args[6])))),
                     <<Return>>)
           /\ Tail(new.kschedule) = old.kschedule

\* A kernel with two data arguments, one of them named xstop, and two
\* statements has been transformed.
C15_Witness ==
    /\ BoundariesMoved
    /\ Len(gocean.before.argument_list) = 4
    /\ gocean.now.argument_list[4] = "xstop_1"
    /\ gocean.now.argument_list[7] = "fld"
    /\ Len(gocean.now.kschedule) = 3

\* C16: apply adds four integer symbols to the table of the invoke under
\* names that were free in it, and inserts before the outer loop, in the
\* order xstart, xstop, ystart, ystop, the assignments to them of the lower
\* and upper bound of the inner loop and of the outer loop as these bounds
\* were before apply; both loops are then over the field space go_every and
\* the iteration space go_all_pts.
C16_InvokeBoundaries ==
    BoundariesMoved =>
        LET old == gocean.before
            new == gocean.now
            added == SubSeq(new.invoke_st, Len(old.invoke_st) + 1, Len(new.invoke_st))
            cursor == position_of_loop(old.schedule)
        IN /\ Len(added) = 4
           /\ SubSeq(new.invoke_st, 1, Len(old.invoke_st)) = old.invoke_st
           /\ \A x \in 1..4 :
                 /\ added[x].datatype = "INTEGER_TYPE"
                 /\ NamedAfter(added[x].name, BoundaryNames[x],
                               symbol_names(old.invoke_st))
           /\ new.schedule =
                 SubSeq(old.schedule, 1, cursor)
                 \o << Assignment(Reference(added[1].name), _lower_bound(old.inner)),
                       Assignment(Reference(added[2].name), _upper_bound(old.inner)),
                       Assignment(Reference(added[3].name), _lower_bound(old.outer)),
                       Assignment(Reference(added[4].name), _upper_bound(old.outer)) >>
                 \o SubSeq(old.schedule, cursor + 1, Len(old.schedule))
           /\ \A loop \in {new.inner, new.outer} :
                 loop.field_space = "go_every" /\ loop.iteration_space = "go_all_pts"

\* Loops over the internal points, after a statement, in an invoke that has
\* symbols named xstart and xstart_1, have been widened.
C16_Witness ==
    /\ BoundariesMoved
    /\ gocean.before.inner.iteration_space = "go_internal_pts"
    /\ position_of_loop(gocean.before.schedule) = 1
    /\ gocean.now.schedule[2].kids[1] = Reference("xstart_2")
    /\ gocean.now.inner.iteration_space = "go_all_pts"

\* The symbols apply added to a table, in the order it added them.
AddedTo(old_st, new_st) == SubSeq(new_st, Len(old_st) + 1, Len(new_st))

\* C28: after apply the arguments of the call and the arguments of the
\* kernel bind by position: the lists have the same length, each boundary
\* passed by the call stands where the kernel has the argument of that
\* boundary (xstart to xstart, xstop to xstop, ystart to ystart, ystop to
\* ystop), and every data argument passed before apply is passed to the
\* argument of the kernel it was passed to.
C28_ArgumentsBind ==
    BoundariesMoved =>
        LET old == gocean.before
            new == gocean.now
            actual == new.arguments
            dummy == new.argument_list
            passed == AddedTo(old.invoke_st, new.invoke_st)
            received == AddedTo(old.kernel_st, new.kernel_st)
        IN /\ Len(actual) = Len(dummy)
           /\ \A x \in 1..4 :
                 \E k \in Range1(Len(actual)) :
                    /\ k <= Len(dummy)
                    /\ actual[k] = passed[x].name
                    /\ dummy[k] = received[x].name
           /\ \A x \in 3..Len(old.argument_list) :
                 \E k \in Range1(Len(actual)) :
                    /\ k <= Len(dummy)
                    /\ actual[k] = old.arguments[x]
                    /\ dummy[k] = old.argument_list[x]

(***************************************************************************)
(* The datatypes of psyir/symbols/datatypes.py.  A Python object handed to *)
(* a constructor is a record of its class, its number (an int), its name   *)
(* (an enum member, a symbol), its datatype (a symbol, a Reference) and    *)
(* its members (a tuple).  A type is a record of its class and its         *)
(* attributes; a call yields what it raised (exc) and the object made.     *)
(***************************************************************************)
None == [cls |-> "NoneType"]
Object(cls, n, name, dtype, items) ==
    [cls |-> cls, n |-> n, name |-> name, datatype |-> dtype, items |-> items]
Integer(n) == Object("int", n, "", None, <<>>)
Str(s) == Object("str", 0, s, None, <<>>)
Float(n) == Object("float", n, "", None, <<>>)
Intrinsic(name) == Object("Intrinsic", 0, name, None, <<>>)
Precision(name) == Object("Precision", 0, name, None, <<>>)
Extent(name) == Object("Extent", 0, name, None, <<>>)
Tuple(items) == Object("tuple", 0, "", None, items)
\* A DataSymbol, a DataTypeSymbol and a Reference to a DataSymbol: symbols
\* are compared by identity, which is their name here.
Symbol(name, dtype) == Object("DataSymbol", 0, name, dtype, <<>>)
DataTypeSymbol(name) == Object("DataTypeSymbol", 0, name, None, <<>>)
SymbolReference(name, dtype) == Object("Reference", 0, name, dtype, <<>>)

DEFERRED == Extent("DEFERRED")
ATTRIBUTE == Extent("ATTRIBUTE")

DeferredType == [cls |-> "DeferredType"]
NoType == [cls |-> "NoType"]

Threw(exc) == [exc |-> exc, obj |-> None]
Made(obj) == [exc |-> "", obj |-> obj]

\* isinstance(x, DataType) (the classes of lines 52-778).
UnknownTypes == {"UnknownType", "UnknownFortranType"}
DataTypes == {"DataType", "DeferredType", "NoType", "ScalarType", "ArrayType",
              "StructureType"} \cup UnknownTypes

\* The precision of another symbol must be of deferred or of scalar integer
\* type (lines 270-274), an integer precision must be > 0 (line 266).
precision_value_error_negative(precision) ==
    \/ precision.cls = "int" /\ precision.n < 0
    \/ /\ precision.cls = "DataSymbol"
       /\ ~(precision.datatype.cls = "ScalarType"
            /\ precision.datatype.intrinsic = Intrinsic("INTEGER"))
       /\ precision.datatype.cls # "DeferredType"

precision_value_error(precision) ==
    \/ precision.cls = "int" /\ precision.n <= 0
    \/ /\ precision.cls = "DataSymbol"
       /\ ~(/\ precision.datatype.cls = "ScalarType"
            /\ precision.datatype.intrinsic = Intrinsic("INTEGER"))
       /\ precision.datatype.cls # "DeferredType"

\* ScalarType.__init__ (lines 254-280).
ScalarType(intrinsic, precision) ==
    IF intrinsic.cls # "Intrinsic" THEN Threw("TypeError")
    ELSE IF precision.cls \notin {"int", "Precision", "DataSymbol"}
    THEN Threw("TypeError")
    ELSE IF precision_value_error(precision) THEN Threw("ValueError")
    ELSE Made([cls |-> "ScalarType", intrinsic |-> intrinsic,
               precision |-> precision])

\* The common scalar datatypes (lines 781-801).
REAL_TYPE == ScalarType(Intrinsic("REAL"), Precision("UNDEFINED")).obj
INTEGER_TYPE == ScalarType(Intrinsic("INTEGER"), Precision("UNDEFINED")).obj

\* isinstance(x, DataNode), for the nodes a shape is made of.
DataNodes == {"Literal", "Reference", "BinaryOperation"}
\* isinstance(x, tuple): ArrayBounds is a namedtuple (line 365).
Tuples == {"tuple", "ArrayBounds"}
ArrayBounds(lower, upper) == Object("ArrayBounds", 0, "", None, <<lower, upper>>)

\* _validate_data_node (lines 504-560): the error raised, or "".
_validate_data_node(dim_node, is_lower_bound) ==
    IF dim_node.cls = "int" THEN ""
    ELSE IF dim_node.cls = "Reference"
    THEN IF dim_node.datatype.cls = "ArrayType" /\ dim_node.datatype.shape # <<>>
         THEN "TypeError"
         ELSE IF ~(\/ dim_node.datatype.cls \in UnknownTypes \cup {"DeferredType"}
                   \/ dim_node.datatype.intrinsic = Intrinsic("INTEGER"))
         THEN "TypeError"
         ELSE ""
    ELSE IF dim_node.cls = "Extent"
    THEN IF is_lower_bound THEN "TypeError" ELSE ""
    ELSE IF dim_node.cls \in DataNodes THEN ""
    ELSE "TypeError"

\* The body of the loop over the extents (lines 568-578).
validate_dimension(dimension) ==
    IF dimension.cls \in Tuples
    THEN IF Len(dimension.items) # 2 THEN "TypeError"
         ELSE IF _validate_data_node(dimension.items[1], TRUE) # ""
         THEN "TypeError"
         ELSE _validate_data_node(dimension.items[2], FALSE)
    ELSE _validate_data_node(dimension, FALSE)

\* The test of lines 592-594 on one dimension of an assumed-shape array.
unspecified(dim) ==
    \/ dim = ATTRIBUTE
    \/ dim.cls \in Tuples /\ dim.items[Len(dim.items)] = ATTRIBUTE

\* ArrayType._validate_shape (lines 479-599) of a list: the error raised,
\* or "".
_validate_shape(extents) ==
    IF \E x \in Range1(Len(extents)) : validate_dimension(extents[x]) # ""
    THEN "TypeError"
    ELSE IF /\ \E x \in Range1(Len(extents)) : extents[x] = DEFERRED
            /\ ~\A x \in Range1(Len(extents)) : extents[x] = DEFERRED
    THEN "TypeError"
    ELSE IF /\ \E x \in Range1(Len(extents)) : extents[x] = ATTRIBUTE
            /\ \E x \in Range1(Len(extents)) : ~unspecified(extents[x])
    THEN "TypeError"
    ELSE ""

\* _node_from_int (lines 373-386).
_node_from_int(var) ==
    IF var.cls = "int" THEN Object("Literal", var.n, "", INTEGER_TYPE, <<>>)
    ELSE var

\* The default lower bound of a dimension (line 415).
one == Integer(1)

\* The body of the loop that builds _shape (lines 416-426).
stored_dimension(dim) ==
    IF dim.cls \in DataNodes \cup {"int"}
    THEN ArrayBounds(_node_from_int(one), _node_from_int(dim))
    ELSE IF dim.cls = "tuple"
    THEN ArrayBounds(_node_from_int(dim.items[1]), _node_from_int(dim.items[2]))
    ELSE dim

\* Lines 411-428, once intrinsic and precision are known.
array_of(dtype, intrinsic, precision, extents) ==
    IF _validate_shape(extents) # "" THEN Threw("TypeError")
    ELSE Made([cls |-> "ArrayType", intrinsic |-> intrinsic,
               precision |-> precision,
               shape |-> [x \in Range1(Len(extents)) |->
                             stored_dimension(extents[x])],
               datatype |-> dtype])

\* ArrayType.__init__ (lines 367-428).  A DataType without an intrinsic
\* (DeferredType, NoType) has no such attribute.
ArrayType(dtype, extents) ==
    IF dtype.cls \in DataTypes
    THEN IF dtype.cls = "StructureType" THEN Threw("NotImplementedError")
         ELSE IF dtype.cls \in UnknownTypes
         THEN array_of(dtype, dtype, None, extents)
         ELSE IF dtype.cls \in {"DeferredType", "NoType", "DataType"}
         THEN Threw("AttributeError")
         ELSE array_of(dtype, dtype.intrinsic, dtype.precision, extents)
    ELSE IF dtype.cls = "DataTypeSymbol"
    THEN array_of(dtype, dtype, None, extents)
    ELSE Threw("TypeError")

\* The shape property (lines 457-477) validates what it returns.
ArrayType_shape(self) ==
    IF _validate_shape(self.shape) # "" THEN Threw("TypeError")
    ELSE Made(self.shape)

(***************************************************************************)
(* StructureType and the equality of types.                                *)
(***************************************************************************)
ComponentType(name, dtype, visibility) ==
    [name |-> name, datatype |-> dtype, visibility |-> visibility]
Visibility(name) == Object("Visibility", 0, name, None, <<>>)

\* StructureType.add (lines 716-752): _components is an ordered dictionary,
\* a name that is there keeps its place.
StructureType_add(self, name, dtype, visibility) ==
    IF name.cls # "str" THEN Threw("TypeError")
    ELSE IF dtype.cls \notin DataTypes \cup {"DataTypeSymbol"}
    THEN Threw("TypeError")
    ELSE IF visibility.cls # "Visibility" THEN Threw("TypeError")
    ELSE LET c == ComponentType(name.name, dtype, visibility)
             old == self.components
         IN  Made([self EXCEPT !.components =
                 IF \E x \in Range1(Len(old)) : old[x].name = name.name
                 THEN [x \in Range1(Len(old)) |->
                          IF old[x].name = name.name THEN c ELSE old[x]]
                 ELSE Append(old, c)])

\* StructureType.create (lines 686-706): the components are 3-tuples.
RECURSIVE StructureType_create_loop(_, _)
StructureType_create_loop(made, components) ==
    IF components = <<>> \/ made.exc # "" THEN made
    ELSE IF Len(Head(components).items) # 3 THEN Threw("TypeError")
    ELSE StructureType_create_loop(
             StructureType_add(made.obj, Head(components).items[1],
                               Head(components).items[2],
                               Head(components).items[3]),
             Tail(components))

StructureType_create(components) ==
    StructureType_create_loop(
        Made([cls |-> "StructureType", components |-> <<>>]), components)

\* DataType.__eq__ (lines 61-68).
DataType__eq__(self, other) == other.cls = self.cls

\* ScalarType.__eq__ (lines 311-322); an enum member, an int and a symbol
\* are equal to themselves only.
ScalarType__eq__(self, other) ==
    IF ~DataType__eq__(self, other) THEN FALSE
    ELSE self.precision = other.precision /\ self.intrinsic = other.intrinsic

\* ArrayType.__eq__ (lines 634-660).  Two ArrayBounds are equal when their
\* lower and their upper bounds are: nodes of the same class, value and
\* datatype, or the same Extent.
shape_lengths_ignored(self, other) == FALSE

shape_lengths_differ(self, other) == Len(self.shape) # Len(other.shape)

ArrayType__eq__(self, other) ==
    IF ~DataType__eq__(self, other) THEN FALSE
    ELSE IF self.intrinsic # other.intrinsic \/ self.precision # other.precision
    THEN FALSE
    ELSE IF shape_lengths_differ(self, other) THEN FALSE
    ELSE \A x \in Range1(Len(self.shape)) :
            x \in Range1(Len(other.shape)) => self.shape[x] = other.shape[x]

\* The equality of two types, by the class of the first.
RECURSIVE eq(_, _)

\* StructureType.__eq__ (lines 762-778): two ordered dictionaries are equal
\* when they hold equal items in the same order.
StructureType__eq__(self, other) ==
    IF ~DataType__eq__(self, other) THEN FALSE
    ELSE IF Len(self.components) # Len(other.components) THEN FALSE
    ELSE \A x \in Range1(Len(self.components)) :
            /\ self.components[x].name = other.components[x].name
            /\ eq(self.components[x].datatype, other.components[x].datatype)
            /\ self.components[x].visibility = other.components[x].visibility

eq(self, other) ==
    IF self.cls = "ScalarType" THEN ScalarType__eq__(self, other)
    ELSE IF self.cls = "ArrayType" THEN ArrayType__eq__(self, other)
    ELSE IF self.cls = "StructureType" THEN StructureType__eq__(self, other)
    ELSE IF self.cls \in DataTypes THEN DataType__eq__(self, other)
    ELSE self = other



(***************************************************************************)
(* UnknownFortranType.  The text of a declaration is the sequence of its   *)
(* tokens, blanks included; an object holds _declaration and the cached    *)
(* _type_text, which is empty until type_text is asked for.                *)
(***************************************************************************)
\* The type specification of a declaration as the parser gives it back:
\* what stands before the attributes and the names, without blanks.
RECURSIVE type_specification(_)
type_specification(text) ==
    IF text = <<>> THEN <<>>
    ELSE IF Head(text) \in {",", "::"} THEN <<>>
    ELSE IF Head(text) = " " THEN type_specification(Tail(text))
    ELSE <<Head(text)>> \o type_specification(Tail(text))

\* UnknownFortranType.__init__ (lines 145-149) on a str.
UnknownFortranType(declaration_txt) ==
    [cls |-> "UnknownFortranType", _declaration |-> declaration_txt,
     _type_text |-> <<>>]

\* The declaration setter (lines 161-172).
set_declaration(self, value) ==
    [self EXCEPT !._declaration = value, !._type_text = <<>>]

\* The type_text property (lines 174-206): the object, with the text
\* cached, and the text.
type_text(self) ==
    IF self._type_text # <<>> THEN [obj |-> self, text |-> self._type_text]
    ELSE [obj |-> [self EXCEPT
                     !._type_text = type_specification(self._declaration)],
          text |-> type_specification(self._declaration)]

\* UnknownFortranType.__eq__ (lines 208-218): the two objects afterwards
\* and the value returned.
UnknownFortranType__eq__(self, other) ==
    IF ~DataType__eq__(self, other)
    THEN [self |-> self, other |-> other, equal |-> FALSE]
    ELSE [self |-> type_text(self).obj, other |-> type_text(other).obj,
          equal |-> type_text(other).text = type_text(self).text]

(***************************************************************************)
(* The calls made on the datatypes.  datatype holds the call, its          *)
(* arguments, whether it was made (done) and what it gave (result); for an *)
(* ArrayType also how often its shape was read and what the last read      *)
(* gave.                                                                   *)
(***************************************************************************)
MaxBytes == 8
MaxDims == 3
MaxReads == 2

\* Sequences over S of the lengths lo..hi.
SeqsOf(S, lo, hi) == UNION {[1..k -> S] : k \in lo..hi}

IntrinsicInputs ==
    {Intrinsic(x) : x \in {"INTEGER", "REAL", "BOOLEAN", "CHARACTER"}}
    \cup {Str("real")}

PrecisionInputs ==
    {Precision(x) : x \in {"SINGLE", "DOUBLE", "UNDEFINED"}}
    \cup {Integer(n) : n \in -1..MaxBytes}
    \cup {Symbol("wp", t) :
            t \in {INTEGER_TYPE, REAL_TYPE, DeferredType, NoType,
                   ArrayType(INTEGER_TYPE, <<Integer(5)>>).obj}}
    \cup {Str("8"), Float(4), Object("NoneType", 0, "", None, <<>>)}

ScalarCalls ==
    {[call |-> "ScalarType", intrinsic |-> i, precision |-> p,
      done |-> FALSE, result |-> Threw("")] :
        i \in IntrinsicInputs, p \in PrecisionInputs}

ElementInputs ==
    {REAL_TYPE, DataTypeSymbol("t"),
     [cls |-> "StructureType", components |-> <<>>], Str("real")}

DimensionInputs ==
    {Integer(5), DEFERRED, ATTRIBUTE, Tuple(<<Integer(1), Integer(5)>>),
     Tuple(<<Integer(2), ATTRIBUTE>>), SymbolReference("n", INTEGER_TYPE),
     Str("5")}

ArrayCalls ==
    {[call |-> "ArrayType", datatype |-> t, shape |-> s,
      done |-> FALSE, result |-> Threw(""), reads |-> 0, read |-> Threw("")] :
        t \in ElementInputs, s \in SeqsOf(DimensionInputs, 0, MaxDims)}

(***************************************************************************)
(* Two types are made and compared.  A type is given by its constructor    *)
(* and the arguments: the intrinsic and precision of a scalar or of the    *)
(* elements of an array, the shape, the components.                        *)
(***************************************************************************)
MaxRank == 2
MaxComponents == 2

TypeInput(ctor, intrinsic, precision, extents, components) ==
    [ctor |-> ctor, intrinsic |-> intrinsic, precision |-> precision,
     shape |-> extents, components |-> components]

\* The call of the constructor.
construct(t) ==
    IF t.ctor = "ScalarType" THEN ScalarType(t.intrinsic, t.precision)
    ELSE IF t.ctor = "ArrayType"
    THEN ArrayType(ScalarType(t.intrinsic, t.precision).obj, t.shape)
    ELSE IF t.ctor = "StructureType" THEN StructureType_create(t.components)
    ELSE IF t.ctor = "DeferredType" THEN Made(DeferredType)
    ELSE Made(NoType)

ElementIntrinsics == {Intrinsic("REAL"), Intrinsic("INTEGER")}
ElementPrecisions ==
    {Integer(4), Integer(8), Precision("SINGLE"), Symbol("wp", INTEGER_TYPE)}

ComparedDimensions ==
    {Integer(10), Tuple(<<Integer(1), Integer(10)>>),
     Tuple(<<Integer(2), Integer(10)>>), ATTRIBUTE,
     Tuple(<<Integer(1), ATTRIBUTE>>), DEFERRED}

ComponentInputs ==
    {Tuple(<<Str("a"), REAL_TYPE, Visibility("PUBLIC")>>),
     Tuple(<<Str("a"), REAL_TYPE, Visibility("PRIVATE")>>),
     Tuple(<<Str("a"), INTEGER_TYPE, Visibility("PUBLIC")>>),
     Tuple(<<Str("b"), REAL_TYPE, Visibility("PUBLIC")>>)}

\* The names of the components of a structure differ.
DistinctNames(cs) ==
    \A x, y \in Range1(Len(cs)) : cs[x].items[1] = cs[y].items[1] => x = y

TypeInputs ==
    {TypeInput("ScalarType", i, p, <<>>, <<>>) :
        i \in ElementIntrinsics, p \in ElementPrecisions}
    \cup {TypeInput("ArrayType", Intrinsic("REAL"), p, s, <<>>) :
            p \in {Integer(4), Integer(8)},
            s \in {e \in SeqsOf(ComparedDimensions, 0, MaxRank) :
                      _validate_shape(e) = ""}}
    \cup {TypeInput("StructureType", None, None, <<>>, cs) :
            cs \in {c \in SeqsOf(ComponentInputs, 0, MaxComponents) :
                      DistinctNames(c)}}
    \cup {TypeInput("DeferredType", None, None, <<>>, <<>>),
          TypeInput("NoType", None, None, <<>>, <<>>)}

EqCalls ==
    {[call |-> "eq", self |-> a, other |-> b, done |-> FALSE,
      result |-> [ab |-> FALSE, ba |-> FALSE, aa |-> FALSE]] :
        a \in TypeInputs, b \in TypeInputs}

(***************************************************************************)
(* Two UnknownFortranTypes are made from declarations, compared, and the   *)
(* declaration of the first is replaced.                                   *)
(***************************************************************************)
MaxSets == 1

Declaration(spec, attrs, blank, name) ==
    spec \o attrs \o blank \o <<"::">> \o blank \o <<name>>

Declarations ==
    {Declaration(spec, attrs, blank, name) :
        spec \in {<<"integer">>, <<"real">>},
        attrs \in {<<>>, <<",", "pointer">>},
        blank \in {<<" ">>, <<" ", " ">>},
        name \in {"a", "b"}}

UnknownCalls ==
    {[call |-> "UnknownFortranType", self |-> UnknownFortranType(a),
      other |-> UnknownFortranType(b), sets |-> 0, done |-> FALSE,
      result |-> FALSE] : a \in Declarations, b \in Declarations}

TypeCalls == ScalarCalls \cup ArrayCalls \cup EqCalls \cup UnknownCalls

InitTypes ==
    /\ datatype \in TypeCalls
    /\ gocean = <<>>
    /\ modinfo = <<>> /\ accesses = <<>>
    /\ scn = <<>> /\ symbols = <<>> /\ table = <<>> /\ routine_table = <<>>
    /\ stmts = <<>> /\ outcome = NotRun
    /\ trans = "" /\ target = "" /\ raised = "none"
    /\ task = <<>> /\ clauses = <<>>

\* ScalarType(intrinsic, precision) is called.
ConstructScalar ==
    /\ datatype.call = "ScalarType" /\ ~datatype.done
    /\ datatype' = [datatype EXCEPT
                      !.done = TRUE,
                      !.result = ScalarType(datatype.intrinsic,
                                            datatype.precision)]
    /\ UNCHANGED gocean
    /\ UNCHANGED queryVars
    /\ UNCHANGED <<inlineVars, kindVars, taskVars>>

\* ArrayType(datatype, shape) is called.
ConstructArray ==
    /\ datatype.call = "ArrayType" /\ ~datatype.done
    /\ datatype' = [datatype EXCEPT
                      !.done = TRUE,
                      !.result = ArrayType(datatype.datatype, datatype.shape)]
    /\ UNCHANGED gocean
    /\ UNCHANGED queryVars
    /\ UNCHANGED <<inlineVars, kindVars, taskVars>>

\* The shape of the ArrayType that was made is read.
ReadShape ==
    /\ datatype.call = "ArrayType" /\ datatype.done
    /\ datatype.result.exc = ""
    /\ datatype.reads < MaxReads
    /\ datatype' = [datatype EXCEPT
                      !.reads = @ + 1,
                      !.read = ArrayType_shape(datatype.result.obj)]
    /\ UNCHANGED gocean
    /\ UNCHANGED queryVars
    /\ UNCHANGED <<inlineVars, kindVars, taskVars>>

\* self == other, other == self and self == self of the two types made.
compared(self, other) ==
    [ab |-> eq(self, other), ba |-> eq(other, self), aa |-> eq(self, self)]

Compare ==
    /\ datatype.call = "eq" /\ ~datatype.done
    /\ datatype' = [datatype EXCEPT
                      !.done = TRUE,
                      !.result = compared(construct(datatype.self).obj,
                                          construct(datatype.other).obj)]
    /\ UNCHANGED gocean
    /\ UNCHANGED queryVars
    /\ UNCHANGED <<inlineVars, kindVars, taskVars>>

\* self == other of the two UnknownFortranTypes.
CompareUnknown ==
    /\ datatype.call = "UnknownFortranType" /\ ~datatype.done
    /\ datatype' = [datatype EXCEPT
          !.done = TRUE,
          !.self = UnknownFortranType__eq__(datatype.self, datatype.other).self,
          !.other = UnknownFortranType__eq__(datatype.self, datatype.other).other,
          !.result = UnknownFortranType__eq__(datatype.self, datatype.other).equal]
    /\ UNCHANGED gocean
    /\ UNCHANGED queryVars
    /\ UNCHANGED <<inlineVars, kindVars, taskVars>>

\* self.declaration = value.
SetDeclaration ==
    /\ datatype.call = "UnknownFortranType"
    /\ datatype.sets < MaxSets
    /\ \E value \in Declarations :
          datatype' = [datatype EXCEPT
                          !.sets = @ + 1,
                          !.done = FALSE,
                          !.self = set_declaration(datatype.self, value)]
    /\ UNCHANGED gocean
    /\ UNCHANGED queryVars
    /\ UNCHANGED <<inlineVars, kindVars, taskVars>>

NextTypes ==
    \/ ConstructScalar
    \/ ConstructArray
    \/ ReadShape
    \/ Compare
    \/ CompareUnknown
    \/ SetDeclaration

SpecTypes == InitTypes /\ [][NextTypes]_vars

(***************************************************************************)
(* Properties of the datatypes.                                            *)
(***************************************************************************)
ScalarMade == datatype.call = "ScalarType" /\ datatype.done
ArrayMade ==
    /\ datatype.call = "ArrayType" /\ datatype.done
    /\ datatype.datatype.cls \in {"ScalarType", "DataTypeSymbol"}

\* A dimension has an ATTRIBUTE extent: given directly or as the upper
\* bound of a pair.
AttributeExtent(dim) ==
    \/ dim = ATTRIBUTE
    \/ dim.cls = "tuple" /\ Len(dim.items) = 2 /\ dim.items[2] = ATTRIBUTE

MixedShape(s) ==
    \/ /\ \E x \in Range1(Len(s)) : s[x] = DEFERRED
       /\ \E x \in Range1(Len(s)) : s[x] # DEFERRED
    \/ /\ \E x \in Range1(Len(s)) : AttributeExtent(s[x])
       /\ \E x \in Range1(Len(s)) : ~AttributeExtent(s[x])

UniformShape(s) ==
    /\ s # <<>>
    /\ \/ \A x \in Range1(Len(s)) : s[x] = DEFERRED
       \/ \A x \in Range1(Len(s)) : AttributeExtent(s[x])

\* C17: ArrayType(t, shape) raises TypeError when one dimension of the
\* shape is DEFERRED and another is not, and when one dimension has an
\* ATTRIBUTE extent (directly or as the upper bound of a pair) and another
\* has not; it raises nothing when all dimensions are DEFERRED or all have
\* an ATTRIBUTE extent; reading the shape of the type gives the same.
C17_Shapes ==
    ArrayMade =>
        /\ MixedShape(datatype.shape) => datatype.result.exc = "TypeError"
        /\ UniformShape(datatype.shape) => datatype.result.exc = ""
        /\ datatype.reads > 0 =>
              /\ MixedShape(datatype.shape) => datatype.read.exc = "TypeError"
              /\ UniformShape(datatype.shape) => datatype.read.exc = ""

\* The precisions the specification allows.
AllowedPrecision(p) ==
    \/ p.cls = "Precision"
    \/ p.cls = "int" /\ p.n > 0
    \/ /\ p.cls = "DataSymbol"
       /\ \/ p.datatype.cls = "DeferredType"
          \/ /\ p.datatype.cls = "ScalarType"
             /\ p.datatype.intrinsic = Intrinsic("INTEGER")

\* C18 as stated: every precision that is not allowed makes
\* ScalarType(intrinsic, precision) raise TypeError.
C18_Original ==
    (ScalarMade /\ datatype.intrinsic.cls = "Intrinsic") =>
        datatype.result.exc =
            IF AllowedPrecision(datatype.precision) THEN "" ELSE "TypeError"

\* C18: ScalarType(intrinsic, precision) raises TypeError when precision is
\* not an int, a Precision or a DataSymbol, ValueError when it is an int
\* <= 0 or a DataSymbol whose type is neither a scalar integer nor
\* deferred, and otherwise makes the type with that intrinsic and precision.
C18_Precision ==
    (ScalarMade /\ datatype.intrinsic.cls = "Intrinsic") =>
        IF AllowedPrecision(datatype.precision)
        THEN /\ datatype.result.exc = ""
             /\ datatype.result.obj.intrinsic = datatype.intrinsic
             /\ datatype.result.obj.precision = datatype.precision
        ELSE IF datatype.precision.cls \in {"int", "DataSymbol"}
        THEN datatype.result.exc = "ValueError"
        ELSE datatype.result.exc = "TypeError"

C18_Witness ==
    /\ ScalarMade
    /\ datatype.intrinsic = Intrinsic("REAL")
    /\ datatype.precision = Integer(0)
    /\ datatype.result.exc = "ValueError"

Compared == datatype.call = "eq" /\ datatype.done

\* The bounds of a dimension as the arguments give them: a pair, an upper
\* bound alone (the lower bound is 1), or an extent without bounds.
BoundsOfDimension(dim) ==
    IF dim.cls = "tuple" THEN dim.items
    ELSE IF dim.cls = "Extent" THEN <<dim>>
    ELSE <<Integer(1), dim>>

\* Two types have the same variant and equal parts.
SameStructure(a, b) ==
    /\ a.ctor = b.ctor
    /\ a.ctor \in {"ScalarType", "ArrayType"} =>
          a.intrinsic = b.intrinsic /\ a.precision = b.precision
    /\ a.ctor = "ArrayType" =>
          /\ Len(a.shape) = Len(b.shape)
          /\ \A x \in Range1(Len(a.shape)) :
                x <= Len(b.shape) =>
                    BoundsOfDimension(a.shape[x]) = BoundsOfDimension(b.shape[x])
    /\ a.ctor = "StructureType" => a.components = b.components

\* C19: a type is equal to itself, self == other gives what other == self
\* gives, and two types are equal exactly when they are of the same
\* variant with equal intrinsic and precision (scalars, elements of
\* arrays), as many dimensions with equal bounds, an upper bound alone
\* standing for the pair (1, upper), and equal components in the same order.
C19_Equality ==
    Compared =>
        /\ datatype.result.aa
        /\ datatype.result.ab = datatype.result.ba
        /\ datatype.result.ab = SameStructure(datatype.self, datatype.other)

C19_Witness ==
    /\ Compared
    /\ datatype.self.ctor = "ArrayType"
    /\ datatype.self.shape = <<Integer(10)>>
    /\ datatype.other.shape = <<Tuple(<<Integer(1), Integer(10)>>)>>
    /\ datatype.self.precision = datatype.other.precision
    /\ datatype.result.ab

UnknownCompared == datatype.call = "UnknownFortranType" /\ datatype.done

\* The text of a declaration without its blanks.
normalised(text) == SelectSeq(text, LAMBDA t : t # " ")

\* C20: two UnknownFortranTypes are equal only if their declarations are
\* the same text once the blanks are taken out, also when the declaration
\* of one of them was replaced before the comparison.
C20_UnknownEquality ==
    (UnknownCompared /\ datatype.result) =>
        normalised(datatype.self._declaration)
            = normalised(datatype.other._declaration)

(***************************************************************************)
(* ModuleInfo (parse/module_info.py).  The source file of the module is    *)
(* given by what a parse of it finds: whether it has a syntax error, the   *)
(* error its conversion to PSyIR raises ("" for none), the names of its    *)
(* subroutines and functions as they are written, its generic interfaces   *)
(* (name and procedures), the modules it uses with the symbols imported,   *)
(* and the symbols of the module.  The object holds the caches of lines    *)
(* 86-131; parses counts the calls of the parser.  None is a cache that    *)
(* was not filled.                                                         *)
(***************************************************************************)
NoCache == [is_none |-> TRUE, value |-> {}]
Cached(v) == [is_none |-> FALSE, value |-> v]

\* str.lower() on the names of the model.
lower(s) ==
    CASE s = "MySub" -> "mysub"
      [] s = "Gen" -> "gen"
      [] s = "Other" -> "other"
      [] OTHER -> s

\* ModuleInfo.__init__ (lines 86-131).
ModuleInfo(source) ==
    [source |-> source, _parse_tree |-> "None", _psyir |-> "None",
     _used_modules |-> NoCache, _used_symbols_from_module |-> NoCache,
     _routine_names |-> NoCache, _psyir_of_routines |-> NoCache,
     _generic_interfaces |-> {}, parses |-> 0]

\* What a method gives: the object afterwards, the exception raised and the
\* value returned.
Gave(self, exc, ret) == [self |-> self, exc |-> exc, ret |-> ret]

\* The names get_parse_tree collects from a parse tree (lines 196-220): the
\* routines as they are written, the generic interfaces in lower case.
collected_names(source) ==
    source.routines \cup {lower(g.name) : g \in source.interfaces}

\* ModuleInfo.get_parse_tree (lines 177-222).
get_parse_tree(self) ==
    IF self._parse_tree = "None"
    THEN IF self.source.syntax_error
         THEN Gave([self EXCEPT !._routine_names = Cached({}),
                                !.parses = @ + 1],
                   "FortranSyntaxError", "None")
         ELSE Gave([self EXCEPT
                      !._routine_names = Cached(collected_names(self.source)),
                      !._generic_interfaces =
                          {[name |-> lower(g.name), procedures |-> g.procedures] :
                              g \in self.source.interfaces},
                      !._parse_tree = "tree",
                      !.parses = @ + 1],
                   "", "tree")
    ELSE Gave(self, "", self._parse_tree)

\* The end of contains_routine (line 241).
contains_routine_lookup(got, rname) ==
    Gave(got.self, "", lower(rname) \in got.self._routine_names.value)

\* ModuleInfo.contains_routine (lines 227-241).
contains_routine(self, rname) ==
    IF self._routine_names.is_none
    THEN IF get_parse_tree(self).exc = "FortranSyntaxError"
         THEN Gave(get_parse_tree(self).self, "", FALSE)
         ELSE contains_routine_lookup(get_parse_tree(self), rname)
    ELSE contains_routine_lookup(Gave(self, "", "None"), rname)

\* ModuleInfo._extract_import_information (lines 244-277), from the parse
\* it was given.
import_information(got) ==
    IF got.exc = "FortranSyntaxError" THEN got.self
    ELSE [got.self EXCEPT
            !._used_modules = Cached({u.module : u \in got.self.source.uses}),
            !._used_symbols_from_module = Cached(got.self.source.uses)]

_extract_import_information(self) ==
    import_information(
        get_parse_tree([self EXCEPT !._used_modules = Cached({}),
                                    !._used_symbols_from_module = Cached({})]))

\* ModuleInfo.get_used_modules (lines 280-295).
get_used_modules(self) ==
    IF self._used_modules.is_none
    THEN Gave(_extract_import_information(self), "",
              _extract_import_information(self)._used_modules.value)
    ELSE Gave(self, "", self._used_modules.value)

\* ModuleInfo.get_used_symbols_from_modules (lines 298-312).
get_used_symbols_from_modules(self) ==
    IF self._used_symbols_from_module.is_none
    THEN Gave(_extract_import_information(self), "",
              _extract_import_information(self)._used_symbols_from_module.value)
    ELSE Gave(self, "", self._used_symbols_from_module.value)

\* The exceptions get_psyir catches (line 337).
CaughtErrors == {"KeyError", "SymbolError", "InternalError", "FortranSyntaxError"}

\* What generate_psyir(get_parse_tree()) raises.
generate_psyir_error(got) ==
    IF got.exc # "" THEN got.exc ELSE got.self.source.conversion_error

\* Lines 333-346 of get_psyir, from the parse it was given: the PSyIR, or
\* the FileContainer with the Container "invalid-module", and the routines
\* of the PSyIR by their names in lower case.
psyir_cached(got) ==
    IF generate_psyir_error(got) \in CaughtErrors
    THEN [got.self EXCEPT !._psyir = "invalid-module",
                          !._psyir_of_routines = Cached({})]
    ELSE [got.self EXCEPT
            !._psyir = "psyir",
            !._psyir_of_routines =
                Cached({lower(r) : r \in got.self.source.routines})]

\* Lines 348-350 of get_psyir; the routine name "None" stands for None.
psyir_returned(self, rname) ==
    IF rname # "None"
    THEN IF lower(rname) \in self._psyir_of_routines.value
         THEN Gave(self, "", lower(rname))
         ELSE Gave(self, "KeyError", "None")
    ELSE Gave(self, "", self._psyir)

\* ModuleInfo.get_psyir (lines 314-351).
get_psyir(self, rname) ==
    IF self._psyir = "None"
    THEN psyir_returned(psyir_cached(get_parse_tree(self)), rname)
    ELSE psyir_returned(self, rname)

\* The end of get_non_local_symbols for a routine that is no generic
\* interface (line 384): the name of the routine stands for its list.
routine_non_locals(self, rname) ==
    IF rname \in self._psyir_of_routines.value
    THEN Gave(self, "", {rname})
    ELSE Gave(self, "KeyError", {})

\* Lines 375-384 of get_non_local_symbols, once the PSyIR is there: the
\* union over the procedures of a generic interface, or the routine's own.
non_locals(self, rname) ==
    IF \E g \in self._generic_interfaces : g.name = rname
    THEN LET g == CHOOSE h \in self._generic_interfaces : h.name = rname
         IN  IF \E x \in Range1(Len(g.procedures)) :
                    routine_non_locals(self, lower(g.procedures[x])).exc # ""
             THEN Gave(self, "KeyError", {})
             ELSE Gave(self, "",
                       UNION {routine_non_locals(self, lower(g.procedures[x])).ret :
                                 x \in Range1(Len(g.procedures))})
    ELSE routine_non_locals(self, rname)

\* ModuleInfo.get_non_local_symbols (lines 354-384).
get_non_local_symbols(self, rname) ==
    IF self._psyir_of_routines.is_none
    THEN non_locals(get_psyir(self, "None").self, lower(rname))
    ELSE non_locals(self, lower(rname))

\* SymbolTable.lookup in the table of the first child of the PSyIR: the
\* Container "invalid-module" has no symbols.
module_symbols(self) ==
    IF self._psyir = "invalid-module" THEN {}
    ELSE {lower(s) : s \in self.source.symbols \cup self.source.routines}

\* Lines 397-407 of get_symbol, once the PSyIR is there.
symbol_found(self, name) ==
    IF lower(name) \in module_symbols(self) THEN Gave(self, "", lower(name))
    ELSE Gave(self, "", "None")

\* ModuleInfo.get_symbol (lines 387-407).
get_symbol(self, name) == symbol_found(get_psyir(self, "None").self, name)

(***************************************************************************)
(* The calls made on a ModuleInfo: modinfo holds the object (self), the    *)
(* number of calls made and the last call with its argument, the exception *)
(* it raised, the value it returned (a truth value, a name or a set) and   *)
(* the _psyir cache as it was before the call; parsing_calls tells that    *)
(* every call so far was one of ParsingCalls.                              *)
(***************************************************************************)
MaxCalls == 3

RoutineSets == {{}, {"mysub"}, {"MySub"}, {"mysub", "Other"}}
InterfaceSets == {{}, {[name |-> "Gen", procedures |-> <<"mysub">>]}}
UseSets == {{}, {[module |-> "m1", symbols |-> {"x"}]}}
ConversionErrors == {"", "SymbolError"}
QueryNames == {"mysub", "MySub", "gen", "absent"}

\* The methods that read the parse tree themselves.
ParsingCalls ==
    {"contains_routine", "get_used_modules", "get_used_symbols_from_modules",
     "get_psyir", "get_parse_tree"}

\* The source files: a generic interface names procedures of the module, a
\* file with a syntax error is not converted.
Sources ==
    {s \in [syntax_error : BOOLEAN, conversion_error : ConversionErrors,
            routines : RoutineSets, interfaces : InterfaceSets,
            uses : UseSets, symbols : {{"var"}}] :
        \A x \in s.interfaces :
            \E y \in s.routines : lower(y) = lower(x.procedures[1])}

NoCall ==
    [call |-> "", arg |-> "", exc |-> "", truth |-> FALSE, name |-> "",
     set |-> {}, psyir_before |-> "None"]

InitModule ==
    /\ \E s \in Sources :
          modinfo = [self |-> ModuleInfo(s), calls |-> 0, last |-> NoCall,
                     parsing_calls |-> TRUE]
    /\ accesses = <<>>
    /\ gocean = <<>> /\ datatype = <<>>
    /\ scn = <<>> /\ symbols = <<>> /\ table = <<>> /\ routine_table = <<>>
    /\ stmts = <<>> /\ outcome = NotRun
    /\ trans = "" /\ target = "" /\ raised = "none"
    /\ task = <<>> /\ clauses = <<>>

\* modinfo after a call that gave got.
Called(call, arg, got, truth, name, set) ==
    [self |-> got.self, calls |-> modinfo.calls + 1,
     last |-> [call |-> call, arg |-> arg, exc |-> got.exc, truth |-> truth,
               name |-> name, set |-> set,
               psyir_before |-> modinfo.self._psyir],
     parsing_calls |-> modinfo.parsing_calls /\ call \in ParsingCalls]

OthersUnchanged ==
    /\ UNCHANGED accesses
    /\ UNCHANGED <<inlineVars, kindVars, taskVars, libVars>>

ContainsRoutine ==
    /\ modinfo.calls < MaxCalls
    /\ \E n \in QueryNames :
          modinfo' = Called("contains_routine", n,
                            contains_routine(modinfo.self, n),
                            contains_routine(modinfo.self, n).ret, "", {})
    /\ OthersUnchanged

GetParseTree ==
    /\ modinfo.calls < MaxCalls
    /\ modinfo' = Called("get_parse_tree", "", get_parse_tree(modinfo.self),
                         FALSE, get_parse_tree(modinfo.self).ret, {})
    /\ OthersUnchanged

GetUsedModules ==
    /\ modinfo.calls < MaxCalls
    /\ modinfo' = Called("get_used_modules", "",
                         get_used_modules(modinfo.self), FALSE, "",
                         get_used_modules(modinfo.self).ret)
    /\ OthersUnchanged

GetUsedSymbolsFromModules ==
    /\ modinfo.calls < MaxCalls
    /\ modinfo' = Called("get_used_symbols_from_modules", "",
                         get_used_symbols_from_modules(modinfo.self), FALSE, "",
                         get_used_symbols_from_modules(modinfo.self).ret)
    /\ OthersUnchanged

GetPsyir ==
    /\ modinfo.calls < MaxCalls
    /\ \E n \in QueryNames \cup {"None"} :
          modinfo' = Called("get_psyir", n, get_psyir(modinfo.self, n), FALSE,
                            get_psyir(modinfo.self, n).ret, {})
    /\ OthersUnchanged

GetNonLocalSymbols ==
    /\ modinfo.calls < MaxCalls
    /\ \E n \in QueryNames :
          modinfo' = Called("get_non_local_symbols", n,
                            get_non_local_symbols(modinfo.self, n), FALSE, "",
                            get_non_local_symbols(modinfo.self, n).ret)
    /\ OthersUnchanged

GetSymbol ==
    /\ modinfo.calls < MaxCalls
    /\ \E n \in QueryNames \cup {"var"} :
          modinfo' = Called("get_symbol", n, get_symbol(modinfo.self, n), FALSE,
                            get_symbol(modinfo.self, n).ret, {})
    /\ OthersUnchanged

NextModule ==
    \/ ContainsRoutine
    \/ GetParseTree
    \/ GetUsedModules
    \/ GetUsedSymbolsFromModules
    \/ GetPsyir
    \/ GetNonLocalSymbols
    \/ GetSymbol

SpecModule == InitModule /\ [][NextModule]_vars

(***************************************************************************)
(* Properties of ModuleInfo.                                               *)
(***************************************************************************)
\* The last call was a query about a routine or a symbol, made when the
\* placeholder was cached.
QueryOfPlaceholder ==
    /\ modinfo.last.psyir_before = "invalid-module"
    /\ \/ modinfo.last.call \in {"contains_routine", "get_symbol",
                                  "get_non_local_symbols"}
       \/ modinfo.last.call = "get_psyir" /\ modinfo.last.arg # "None"

\* C21: when the source has a syntax error or its conversion fails,
\* get_psyir() raises nothing, returns the placeholder and caches it, and
\* every later contains_routine, get_psyir(routine_name), get_symbol and
\* get_non_local_symbols raises nothing and answers 'not found' (False,
\* None, no symbols).
C21_Placeholder ==
    /\ (/\ modinfo.last.call = "get_psyir" /\ modinfo.last.arg = "None"
        /\ \/ modinfo.self.source.syntax_error
           \/ modinfo.self.source.conversion_error # "") =>
          /\ modinfo.last.exc = ""
          /\ modinfo.last.name = "invalid-module"
          /\ modinfo.self._psyir = "invalid-module"
    /\ QueryOfPlaceholder =>
          /\ modinfo.last.exc = ""
          /\ ~modinfo.last.truth
          /\ modinfo.last.name \in {"", "None"}
          /\ modinfo.last.set = {}

\* C22: the parser is called at most once on the file of a ModuleInfo,
\* whatever calls of contains_routine, get_used_modules,
\* get_used_symbols_from_modules, get_psyir and get_parse_tree are made and
\* whether or not the parse succeeded, and after a failed parse
\* contains_routine returns False.
C22_ParsedOnce ==
    modinfo.parsing_calls =>
        /\ modinfo.self.parses <= 1
        /\ (modinfo.last.call = "contains_routine"
            /\ modinfo.self.source.syntax_error) => ~modinfo.last.truth

\* C23: contains_routine(name) returns True exactly when the source
\* defines a subroutine, a function or a generic interface whose name is
\* name, letter case ignored.
C23_ContainsRoutine ==
    (modinfo.last.call = "contains_routine"
     /\ ~modinfo.self.source.syntax_error) =>
        modinfo.last.truth =
            \/ \E r \in modinfo.self.source.routines :
                  lower(r) = lower(modinfo.last.arg)
            \/ \E g \in modinfo.self.source.interfaces :
                  lower(g.name) = lower(modinfo.last.arg)

(***************************************************************************)
(* reference_accesses: a VariablesAccessInfo is the sequence of the        *)
(* accesses recorded, in the order of the calls of add_access; the         *)
(* accesses of one variable, var_accesses[name].all_accesses, are the      *)
(* records of that name, in that order.                                    *)
(***************************************************************************)
MaxIndices == 2

\* VariablesAccessInfo.add_access(name, access_type, node): a new record
\* without indices (<<>> stands for None).
add_access(var_accesses, name, access_type, node) ==
    Append(var_accesses, [name |-> name, access_type |-> access_type,
                          node |-> node, indices |-> <<>>])

\* The place of var_accesses[name].all_accesses[-1].
last_access(var_accesses, name) ==
    CHOOSE i \in Range1(Len(var_accesses)) :
        /\ var_accesses[i].name = name
        /\ \A j \in Range1(Len(var_accesses)) :
              j > i => var_accesses[j].name # name

\* Reference.reference_accesses (reference.py, lines 132-141).
Reference_reference_accesses(self, var_accesses) ==
    add_access(var_accesses, self.sym, "READ", self)

\* The end of Array.reference_accesses (reference.py, lines 251-255) and of
\* StructureReference.reference_accesses (lines 216-220).
indices_stored(self, var_accesses) ==
    IF self.kids # <<>>
    THEN [var_accesses EXCEPT
            ![last_access(var_accesses, self.sym)].indices = self.kids]
    ELSE var_accesses

\* Array.reference_accesses (reference.py, lines 231-255),
\* StructureReference.reference_accesses (structure_reference.py, lines
\* 196-220), Reference.reference_accesses, and for every other node
\* Node.reference_accesses, which passes the call on to the children.
RECURSIVE reference_accesses(_, _)
RECURSIVE children_accesses(_, _, _)
reference_accesses(self, var_accesses) ==
    IF self.k \in {"ArrayReference", "StructureReference"}
    THEN indices_stored(self,
             children_accesses(self.kids, 1,
                 Reference_reference_accesses(self, var_accesses)))
    ELSE IF self.k = "Reference"
    THEN Reference_reference_accesses(self, var_accesses)
    ELSE children_accesses(self.kids, 1, var_accesses)

\* for child in self._children: child.reference_accesses(var_accesses)
children_accesses(children, i, var_accesses) ==
    IF i > Len(children) THEN var_accesses
    ELSE children_accesses(children, i + 1,
                           reference_accesses(children[i], var_accesses))

\* The references handed to reference_accesses: scalars i and j, arrays a
\* and b with up to MaxIndices index expressions, which may be array
\* references themselves, and structures with a member.
ArrayNames == {"a", "b"}
ScalarIndices ==
    {Reference("i"), Literal(1), BinaryOperation("+", Reference("i"), Literal(1)),
     BinaryOperation("+", Reference("i"), Reference("j"))}
IndexExpressions ==
    ScalarIndices \cup {ArrayReference(s, <<e>>) : s \in ArrayNames, e \in ScalarIndices}
AccessedReferences ==
    {Reference(s) : s \in ArrayNames}
    \cup {ArrayReference(s, ix) :
            s \in ArrayNames,
            ix \in UNION {[Range1(n) -> IndexExpressions] : n \in Range1(MaxIndices)}}
    \cup {StructureReference(s, m) :
            s \in ArrayNames,
            m \in {Member("m")} \cup {ArrayMember("m", <<e>>) : e \in IndexExpressions}}

InitAccesses ==
    /\ accesses = [reference |-> NoNode, var_accesses |-> <<>>]
    /\ modinfo = <<>>
    /\ gocean = <<>> /\ datatype = <<>>
    /\ scn = <<>> /\ symbols = <<>> /\ table = <<>> /\ routine_table = <<>>
    /\ stmts = <<>> /\ outcome = NotRun
    /\ trans = "" /\ target = "" /\ raised = "none"
    /\ task = <<>> /\ clauses = <<>>

\* reference.reference_accesses(var_accesses) on a new VariablesAccessInfo.
ReferenceAccesses ==
    /\ accesses.reference = NoNode
    /\ \E r \in AccessedReferences :
          accesses' = [reference |-> r,
                       var_accesses |-> reference_accesses(r, <<>>)]
    /\ UNCHANGED modinfo
    /\ UNCHANGED <<inlineVars, kindVars, taskVars, libVars>>

NextAccesses == ReferenceAccesses

SpecAccesses == InitAccesses /\ [][NextAccesses]_vars

(***************************************************************************)
(* Properties of reference_accesses.                                       *)
(***************************************************************************)
\* The references below a node, the node included, in the order of the
\* calls.
ReferencesBelow(n) == walk(n, ReferenceKinds)

\* C24: reference_accesses on an array or structure reference records one
\* READ access of the symbol of the reference, followed by the accesses of
\* its index and member expressions, all READ, and the record made for a
\* reference holds the list of the index expressions of that reference,
\* also when an index expression accesses the same symbol.
C24_Indices ==
    accesses.reference # NoNode =>
        /\ Len(accesses.var_accesses) = Len(ReferencesBelow(accesses.reference))
        /\ \A i \in Range1(Len(accesses.var_accesses)) :
              /\ accesses.var_accesses[i].node = ReferencesBelow(accesses.reference)[i]
              /\ accesses.var_accesses[i].name = accesses.var_accesses[i].node.sym
              /\ accesses.var_accesses[i].access_type = "READ"
              /\ accesses.var_accesses[i].indices = accesses.var_accesses[i].node.kids

====
